---- MODULE Spec2Model ----
(***************************************************************************)
(* Model of the repository synchronisation wrapper src/lib/git.ts          *)
(* (status / pull / push) running against a git checkout and its remote.   *)
(*                                                                         *)
(* Every `await git(...)` / `await gitSafe(...)` is one atomic step: the   *)
(* effect of the git command on the checkout and on the remote, followed   *)
(* by the TypeScript code that runs up to the next await.  The effect of   *)
(* each git command is the effect the git binary has for the arguments     *)
(* the code passes (fetch, pull --ff-only, add <paths>, commit -m,         *)
(* push --force-with-lease, rev-parse --short HEAD).                       *)
(*                                                                         *)
(* Texts (stdout, stderr, error messages) are sequences of word tokens, so *)
(* that String.includes and template concatenation are computed.           *)
(***************************************************************************)
EXTENDS Integers, Sequences, FiniteSets, TLC

\* ---------------------------------------------------------------- bounds
MaxCommits == 3
MaxBooks == 2
MaxId == 3
MaxCallbacks == 2
MaxClicks == 3
MaxPolls == 1

\* ---------------------------------------------------------------- universe
Tasks == {1, 2}
Checkouts == {1, 2}

BOOKS == "data/books.json"
CONFIG == "data/config.json"
\* a file of the site repository that is not one of the data files
OtherFile == "README"
\* a path that is not in the repository's history (untracked when present)
JunkFile == "junk"

\* dataFiles = [booksPath(), configPath()]
dataFiles == {BOOKS, CONFIG}
TrackedFiles == dataFiles \cup {OtherFile}
Files == TrackedFiles \cup {JunkFile}

VARIABLES
  commits,    \* the commit graph: sequence of [parents, files]
  remote,     \* tip of the branch on the remote
  head,       \* head[k]: tip of the local branch of checkout k
  tracking,   \* tracking[k]: remote-tracking ref (origin/<branch>) of checkout k
  fstate,     \* fstate[k][f]: porcelain XY state of file f in checkout k
  ckOf,       \* ckOf[t]: the checkout (SITE_REPO_PATH) task t works in
  upstream,   \* upstream[k]: the local branch of k has an upstream configured
  pc,         \* pc[t]: the await the task is suspended at, or "idle"
  op,         \* op[t]: the function the task runs or ran last
  reqBody,    \* reqBody[t]: JSON body of the task's POST /api/sync/push
  message,    \* message[t]: commitMessage of the task's push() call
  changedFiles, \* changedFiles[t]: the local of that name in status()
  cmdResult,  \* cmdResult[t]: outcome of the task's most recent git command
  result,     \* result[t]: value returned by the task's last finished call
  log,        \* log[t]: git commands issued by the current (or last) call
  made,       \* made[t]: commit created by the call's commit step, 0 if none
  phase,      \* how far server.ts has run: "boot", "pulling" or "serving"
  startupStatus, \* the module variable of that name in routes/status.ts
  booksStore, \* content of data/books.json: the sequence of books
  configStore, \* content of data/config.json: [tags, ratings]
  lastResponse, \* response of the last books or tags request
  written,    \* the data files the last request wrote
  uiBooks,    \* _books of the browser store
  uiConfig,   \* _config of the browser store
  subscribers, \* _subscribers, in insertion order
  queue,      \* the subscribers the running _notify() has still to call
  invoked,    \* invoked[fn]: calls of fn by the last mutation's _notify()
  lastEvent,  \* lastEvent[fn]: what the page last did with callback fn
  uiStatus,   \* _status of the sync widget
  pushing,    \* _pushing of the sync widget
  button,     \* _pushBtn: [disabled, display, loading]
  indicator,  \* the modifier of the class of _indicator
  pcPush,     \* where the running _handlePush() is suspended, or "idle"
  polls,      \* refresh() calls of the timers awaiting their response
  inflight,   \* POST /api/sync/push requests sent and not settled
  posted,     \* POST /api/sync/push requests sent so far
  clicks,     \* click events the push button has dispatched so far
  handlers,   \* handlers[h]: the store request handler h is running, with
              \* what it has read, or Waiting
  proc,       \* the git process last spawned: [args, exitCode, stdout, stderr]
  ran         \* what the helper that spawned it returned or threw

syncVars == <<commits, remote, head, tracking, fstate, ckOf, upstream, pc, op,
              reqBody, message, changedFiles, cmdResult, result, log, made>>

serverVars == <<phase, startupStatus, handlers>>

storeVars == <<booksStore, configStore, lastResponse, written>>

pageStoreVars == <<uiBooks, uiConfig, subscribers, queue, invoked, lastEvent>>

widgetVars == <<uiStatus, pushing, button, indicator, pcPush, polls, clicks,
                inflight, posted>>

browserVars == <<pageStoreVars, widgetVars>>

runnerVars == <<proc, ran>>

vars == <<syncVars, serverVars, storeVars, browserVars, runnerVars>>

\* ---------------------------------------------------------------- texts
NoText == << >>

\* variant of OrElse: b || a
OrElseSwapped(a, b) == IF b # NoText THEN b ELSE a

\* a || b on strings: the empty string is falsy
OrElse(a, b) == IF a # NoText THEN a ELSE b

\* hay.includes(needle)
Includes(hay, needle) ==
  \E i \in 1..(Len(hay) - Len(needle) + 1) :
     SubSeq(hay, i, i + Len(needle) - 1) = needle

\* the characters String.trim() strips (texts keep them as separate tokens)
Whitespace == {" ", "\t", "\n"}

RECURSIVE TrimStart(_)
TrimStart(s) ==
  IF s # NoText /\ Head(s) \in Whitespace THEN TrimStart(Tail(s)) ELSE s

RECURSIVE TrimEnd(_)
TrimEnd(s) ==
  IF s # NoText /\ s[Len(s)] \in Whitespace
  THEN TrimEnd(SubSeq(s, 1, Len(s) - 1)) ELSE s

\* s.trim()
Trim(s) == TrimEnd(TrimStart(s))

\* s.split(sep) for a one-character separator
RECURSIVE Split(_, _)
Split(s, sep) ==
  IF \A i \in 1..Len(s) : s[i] # sep THEN <<s>>
  ELSE LET i == CHOOSE j \in 1..Len(s) :
                  s[j] = sep /\ \A h \in 1..(j - 1) : s[h] # sep
       IN <<SubSeq(s, 1, i - 1)>> \o Split(SubSeq(s, i + 1, Len(s)), sep)

\* s.split(/\s+/): a run of whitespace is one separator
RECURSIVE SplitWhitespace(_)
SplitWhitespace(s) ==
  IF \A i \in 1..Len(s) : s[i] \notin Whitespace THEN <<s>>
  ELSE LET i == CHOOSE j \in 1..Len(s) :
                  s[j] \in Whitespace /\ \A h \in 1..(j - 1) : s[h] \notin Whitespace
       IN <<SubSeq(s, 1, i - 1)>>
            \o SplitWhitespace(TrimStart(SubSeq(s, i, Len(s))))

\* lines.filter(Boolean): the empty string is falsy
FilterBoolean(lines) == SelectSeq(lines, LAMBDA l : l # NoText)

\* s.slice(n)
Slice(s, n) == SubSeq(s, n + 1, Len(s))

DigitChars == <<"0", "1", "2", "3", "4", "5", "6", "7", "8", "9">>

IsDigit(c) == \E d \in 1..Len(DigitChars) : DigitChars[d] = c

DigitValue(c) == (CHOOSE d \in 1..Len(DigitChars) : DigitChars[d] = c) - 1

\* the decimal numeral git prints for a count n
RECURSIVE Decimal(_)
Decimal(n) ==
  IF n < 10 THEN <<DigitChars[n + 1]>>
  ELSE Decimal(n \div 10) \o <<DigitChars[(n % 10) + 1]>>

\* stands for the number NaN: no numeral parses to it
NaN == 0 - 1

\* value of the numeral s, all of whose characters are digits
RECURSIVE NumeralValue(_)
NumeralValue(s) ==
  IF s = NoText THEN 0
  ELSE 10 * NumeralValue(SubSeq(s, 1, Len(s) - 1)) + DigitValue(s[Len(s)])

\* parseInt(s, 10) of a string without sign: the longest prefix of digits
\* (after leading whitespace), NaN when that prefix is empty
ParseInt(s) ==
  LET t == TrimStart(s)
      n == IF \A i \in 1..Len(t) : IsDigit(t[i]) THEN Len(t)
           ELSE (CHOOSE j \in 1..Len(t) :
                   ~IsDigit(t[j]) /\ \A h \in 1..(j - 1) : IsDigit(t[h])) - 1
  IN IF n = 0 THEN NaN ELSE NumeralValue(SubSeq(t, 1, n))

NOTHING_TO_COMMIT == <<"nothing", "to", "commit">>

DEFAULT_MESSAGE == <<"Update", " ", "catalogue">>

\* request bodies of POST /api/sync/push: { message?: string }
NoBody == [has |-> FALSE, message |-> NoText]
Bodies ==
  { NoBody } \cup
  { [has |-> TRUE, message |-> m] :
      m \in { NoText, <<" ">>, <<"\t", " ", "\n">>, <<"fix">>,
              <<" ", "fix", " ", "typo", "\n">> } }

\* outputs of the git binary
TxtClean == <<"nothing", "to", "commit", ",", "working", "tree", "clean">>
TxtNoChangesAdded == <<"no", "changes", "added", "to", "commit">>
TxtUntracked == <<"nothing", "added", "to", "commit", "but", "untracked",
                  "files", "present">>
TxtFatalNet == <<"fatal", ":", "unable", "to", "access", "remote">>
TxtFatalCommit == <<"fatal", ":", "unable", "to", "auto-detect", "email",
                    "address">>
TxtNotFF == <<"fatal", ":", "Not", "possible", "to", "fast-forward", ",",
              "aborting", ".">>
TxtOverwritten == <<"error", ":", "Your", "local", "changes", "would", "be",
                    "overwritten", "by", "merge">>
TxtUpdating == <<"Updating">>
TxtStale == <<"!", "[", "rejected", "]", "(", "stale", "info", ")">>
TxtNoTracking == <<"There", "is", "no", "tracking", "information", "for",
                   "the", "current", "branch", ".">>
TxtNoUpstreamBranch == <<"fatal", ":", "The", "current", "branch", "has", "no",
                         "upstream", "branch", ".">>
TxtNoUpstream == <<"fatal", ":", "no", "upstream", "configured", "for",
                   "branch">>
TxtPathspec == <<"fatal", ":", "pathspec", "did", "not", "match", "any",
                 "files">>
TxtIndexLock == <<"fatal", ":", "Unable", "to", "create", "index.lock">>
TxtNotARepo == <<"fatal", ":", "not", "a", "git", "repository">>

\* ---------------------------------------------------------------- commit graph
RECURSIVE Ancestors(_)
\* commits reachable from c (c included); parents have smaller ids
Ancestors(c) ==
  {c} \cup UNION {Ancestors(p) : p \in commits[c].parents}

IsAncestorOrEq(a, b) == a \in Ancestors(b)

Diverged(a, b) == ~IsAncestorOrEq(a, b) /\ ~IsAncestorOrEq(b, a)

\* files changed by the commits of b that a does not have
ChangedBetween(a, b) ==
  UNION {commits[c].files : c \in Ancestors(b) \ Ancestors(a)}

\* ---------------------------------------------------------------- file states
\* porcelain XY codes: X = index vs HEAD, Y = working tree vs index.
\* "D?" is a path deleted in the index with an untracked file in its place;
\* "--" is a path that exists nowhere (not in HEAD, index or working tree).
Clean == "  "
Absent == "--"
FileStates == {"  ", " M", "M ", "MM", " D", "D ", "D?", "??", "A ", "AM",
               "--"}

IsStaged(s) == s \in {"M ", "MM", "D ", "D?", "A ", "AM"}
IsWorktreeDirty(s) == s \in {" M", "MM", " D", "AM"}
IsUntracked(s) == s \in {"??", "D?"}

\* the path is neither in the index nor in the working tree
NoSuchPath(s) == s \in {"D ", "--"}

\* nothing of the path differs from HEAD
NoLocalChange(s) == s \in {"  ", "--"}

\* git add <path>
AddFile(s) ==
  CASE s = " M" -> "M "
    [] s = "MM" -> "M "
    [] s = " D" -> "D "
    [] s = "D?" -> "M "
    [] s = "??" -> "A "
    [] s = "AM" -> "A "
    [] OTHER -> s

\* variant of CommitFile: the commit leaves the index entry as it was
CommitFileKeepsIndex(s) == s

\* effect of a commit on a path
CommitFile(s) ==
  CASE s = "M " -> "  "
    [] s = "MM" -> " M"
    [] s = "D " -> "--"
    [] s = "D?" -> "??"
    [] s = "A " -> "  "
    [] s = "AM" -> " M"
    [] OTHER -> s

\* writeJson(path, data): the working-tree copy is rewritten
WriteFile(s) ==
  CASE s = "  " -> " M"
    [] s = "M " -> "MM"
    [] s = " D" -> " M"
    [] s = "D " -> "D?"
    [] s = "A " -> "AM"
    [] s = "--" -> "??"
    [] OTHER -> s

\* ---------------------------------------------------------------- git commands
\* Each operator is the set of outcomes the command can have in checkout k:
\* exit status, both output streams, and the refs / files it leaves behind.

\* git fetch
GitFetch(k) ==
  { [exitCode |-> 0, stdout |-> NoText, stderr |-> NoText,
     tracking |-> remote],
    [exitCode |-> 128, stdout |-> NoText, stderr |-> TxtFatalNet,
     tracking |-> tracking[k]] }

\* variant of FastForward: git pull without --ff-only merges diverged
\* histories into a new commit with two parents
MergeOrFastForward(k, t) ==
  IF IsAncestorOrEq(t, head[k])
  THEN [exitCode |-> 0,
        stdout |-> <<"Already", "up", "to", "date", ".">>,
        stderr |-> NoText, tracking |-> t, head |-> head[k],
        commits |-> commits]
  ELSE IF \E f \in ChangedBetween(head[k], t) : ~NoLocalChange(fstate[k][f])
  THEN [exitCode |-> 1, stdout |-> TxtUpdating, stderr |-> TxtOverwritten,
        tracking |-> t, head |-> head[k], commits |-> commits]
  ELSE IF IsAncestorOrEq(head[k], t)
  THEN [exitCode |-> 0, stdout |-> <<"Updating", "Fast-forward">>,
        stderr |-> NoText, tracking |-> t, head |-> t, commits |-> commits]
  ELSE [exitCode |-> 0, stdout |-> <<"Merge", "made">>, stderr |-> NoText,
        tracking |-> t, head |-> Len(commits) + 1,
        commits |-> Append(commits,
                     [parents |-> {head[k], t}, files |-> {}])]

\* variant of FastForward: the checkout is moved to t whatever the local
\* changes are
FastForwardOverwrites(k, t) ==
  IF IsAncestorOrEq(t, head[k])
  THEN [exitCode |-> 0,
        stdout |-> <<"Already", "up", "to", "date", ".">>,
        stderr |-> NoText, tracking |-> t, head |-> head[k],
        commits |-> commits]
  ELSE IF IsAncestorOrEq(head[k], t)
  THEN [exitCode |-> 0, stdout |-> <<"Updating", "Fast-forward">>,
        stderr |-> NoText, tracking |-> t, head |-> t, commits |-> commits]
  ELSE [exitCode |-> 128, stdout |-> NoText, stderr |-> TxtNotFF,
        tracking |-> t, head |-> head[k], commits |-> commits]

\* the merge half of git pull --ff-only, once origin/<branch> is at t
FastForward(k, t) ==
  IF IsAncestorOrEq(t, head[k])
  THEN [exitCode |-> 0,
        stdout |-> <<"Already", "up", "to", "date", ".">>,
        stderr |-> NoText, tracking |-> t, head |-> head[k],
        commits |-> commits]
  ELSE IF IsAncestorOrEq(head[k], t)
  THEN IF \E f \in ChangedBetween(head[k], t) : ~NoLocalChange(fstate[k][f])
       THEN [exitCode |-> 1, stdout |-> TxtUpdating, stderr |-> TxtOverwritten,
             tracking |-> t, head |-> head[k], commits |-> commits]
       ELSE [exitCode |-> 0, stdout |-> <<"Updating", "Fast-forward">>,
             stderr |-> NoText, tracking |-> t, head |-> t,
             commits |-> commits]
  ELSE [exitCode |-> 128, stdout |-> NoText, stderr |-> TxtNotFF,
        tracking |-> t, head |-> head[k], commits |-> commits]

\* git pull --ff-only: fetches, then fast-forwards or refuses
GitPullFFOnly(k) ==
  { IF f.exitCode # 0
    THEN [exitCode |-> f.exitCode, stdout |-> f.stdout,
          stderr |-> f.stderr,
          tracking |-> f.tracking, head |-> head[k], commits |-> commits]
    ELSE IF ~upstream[k]
    THEN [exitCode |-> 1, stdout |-> NoText, stderr |-> TxtNoTracking,
          tracking |-> f.tracking, head |-> head[k], commits |-> commits]
    ELSE FastForward(k, f.tracking)
    : f \in GitFetch(k) }

\* git add data/books.json data/config.json: all paths or none
GitAdd(k) ==
  { [exitCode |-> 128, stdout |-> NoText, stderr |-> TxtIndexLock,
     fstate |-> fstate[k]] }
  \cup
  { IF \E f \in dataFiles : NoSuchPath(fstate[k][f])
    THEN [exitCode |-> 128, stdout |-> NoText, stderr |-> TxtPathspec,
          fstate |-> fstate[k]]
    ELSE [exitCode |-> 0, stdout |-> NoText, stderr |-> NoText,
          fstate |-> [f \in Files |->
                       IF f \in dataFiles THEN AddFile(fstate[k][f])
                       ELSE fstate[k][f]]] }

\* what git commit prints when the index equals HEAD
NothingStagedText(k) ==
  IF \E f \in Files : IsWorktreeDirty(fstate[k][f]) THEN TxtNoChangesAdded
  ELSE IF \E f \in Files : IsUntracked(fstate[k][f]) THEN TxtUntracked
  ELSE TxtClean

\* variant of GitCommit: git commit --amend replaces the tip
GitCommitAmend(k) ==
  { [exitCode |-> 128, stdout |-> NoText, stderr |-> TxtFatalCommit,
     commits |-> commits, head |-> head[k], fstate |-> fstate[k],
     made |-> 0] }
  \cup
  { IF \E f \in Files : IsStaged(fstate[k][f])
    THEN [exitCode |-> 0, stdout |-> <<"[", "branch", "]">>,
          stderr |-> NoText,
          commits |-> Append(commits,
                       [parents |-> commits[head[k]].parents,
                        files |-> commits[head[k]].files \cup
                                  {f \in Files : IsStaged(fstate[k][f])}]),
          head |-> Len(commits) + 1,
          fstate |-> [f \in Files |-> CommitFile(fstate[k][f])],
          made |-> Len(commits) + 1]
    ELSE [exitCode |-> 1, stdout |-> NothingStagedText(k), stderr |-> NoText,
          commits |-> commits, head |-> head[k], fstate |-> fstate[k],
          made |-> 0] }

\* git commit -m <message>
GitCommit(k) ==
  { [exitCode |-> 128, stdout |-> NoText, stderr |-> TxtFatalCommit,
     commits |-> commits, head |-> head[k], fstate |-> fstate[k],
     made |-> 0] }
  \cup
  { IF \E f \in Files : IsStaged(fstate[k][f])
    THEN [exitCode |-> 0, stdout |-> <<"[", "branch", "]">>,
          stderr |-> NoText,
          commits |-> Append(commits,
                       [parents |-> {head[k]},
                        files |-> {f \in Files : IsStaged(fstate[k][f])}]),
          head |-> Len(commits) + 1,
          fstate |-> [f \in Files |-> CommitFile(fstate[k][f])],
          made |-> Len(commits) + 1]
    ELSE [exitCode |-> 1, stdout |-> NothingStagedText(k), stderr |-> NoText,
          commits |-> commits, head |-> head[k], fstate |-> fstate[k],
          made |-> 0] }

\* variant of GitPushForceWithLease: git push --force takes no lease
GitPushForce(k) ==
  IF ~upstream[k]
  THEN { [exitCode |-> 128, stdout |-> NoText, stderr |-> TxtNoUpstreamBranch,
          remote |-> remote, tracking |-> tracking[k]] }
  ELSE
  { [exitCode |-> 128, stdout |-> NoText, stderr |-> TxtFatalNet,
     remote |-> remote, tracking |-> tracking[k]] }
  \cup
  { IF remote = head[k]
    THEN [exitCode |-> 0, stdout |-> NoText,
          stderr |-> <<"Everything", "up-to-date">>,
          remote |-> remote, tracking |-> head[k]]
    ELSE [exitCode |-> 0, stdout |-> NoText,
          stderr |-> <<"forced", "update">>,
          remote |-> head[k], tracking |-> head[k]] }

\* git push --force-with-lease: the lease is the remote-tracking ref
GitPushForceWithLease(k) ==
  IF ~upstream[k]
  THEN { [exitCode |-> 128, stdout |-> NoText, stderr |-> TxtNoUpstreamBranch,
          remote |-> remote, tracking |-> tracking[k]] }
  ELSE
  { [exitCode |-> 128, stdout |-> NoText, stderr |-> TxtFatalNet,
     remote |-> remote, tracking |-> tracking[k]] }
  \cup
  { IF remote = head[k]
    THEN [exitCode |-> 0, stdout |-> NoText,
          stderr |-> <<"Everything", "up-to-date">>,
          remote |-> remote, tracking |-> head[k]]
    ELSE IF tracking[k] # remote
    THEN [exitCode |-> 1, stdout |-> NoText, stderr |-> TxtStale,
          remote |-> remote, tracking |-> tracking[k]]
    ELSE [exitCode |-> 0, stdout |-> NoText,
          stderr |-> <<"forced", "update">>,
          remote |-> head[k], tracking |-> head[k]] }

\* the abbreviated object name of commit c
ShortSha(c) == ToString(c)

\* git rev-parse --short HEAD: prints the abbreviated name of HEAD
GitRevParse(k) ==
  { [exitCode |-> 0, stdout |-> <<ShortSha(head[k]), "\n">>,
     stderr |-> NoText],
    [exitCode |-> 128, stdout |-> NoText, stderr |-> TxtNotARepo] }

\* the characters of a repository-relative path
PathChars(f) ==
  IF f = BOOKS
  THEN <<"d", "a", "t", "a", "/", "b", "o", "o", "k", "s", ".", "j", "s", "o", "n">>
  ELSE <<"d", "a", "t", "a", "/", "c", "o", "n", "f", "i", "g", ".", "j", "s", "o", "n">>

\* data files in the order git lists them (by path)
SortedDataFiles == <<BOOKS, CONFIG>>

\* the XY code of the tracked entry of a file, none when it has no change
\* to report as a tracked path
TrackedXY(s) ==
  CASE s = " M" -> <<" ", "M">>
    [] s = "M " -> <<"M", " ">>
    [] s = "MM" -> <<"M", "M">>
    [] s = " D" -> <<" ", "D">>
    [] s \in {"D ", "D?"} -> <<"D", " ">>
    [] s = "A " -> <<"A", " ">>
    [] s = "AM" -> <<"A", "M">>
    [] OTHER -> NoText

\* one porcelain line: "XY path\n"
PorcelainLine(xy, f) == xy \o <<" ">> \o PathChars(f) \o <<"\n">>

\* lines of the tracked entries, in path order
RECURSIVE TrackedLines(_, _)
TrackedLines(k, fs) ==
  IF fs = << >> THEN NoText
  ELSE (IF TrackedXY(fstate[k][Head(fs)]) # NoText
        THEN PorcelainLine(TrackedXY(fstate[k][Head(fs)]), Head(fs))
        ELSE NoText) \o TrackedLines(k, Tail(fs))

\* lines of the untracked entries, in path order
RECURSIVE UntrackedLines(_, _)
UntrackedLines(k, fs) ==
  IF fs = << >> THEN NoText
  ELSE (IF IsUntracked(fstate[k][Head(fs)])
        THEN PorcelainLine(<<"?", "?">>, Head(fs))
        ELSE NoText) \o UntrackedLines(k, Tail(fs))

\* git status --porcelain data/books.json data/config.json: tracked entries
\* first, untracked entries after them
GitStatusPorcelain(k) ==
  { [exitCode |-> 0,
     stdout |-> TrackedLines(k, SortedDataFiles)
                  \o UntrackedLines(k, SortedDataFiles),
     stderr |-> NoText],
    [exitCode |-> 128, stdout |-> NoText, stderr |-> TxtNotARepo] }

\* commits reachable from a and not from b
OnlyIn(a, b) == Ancestors(a) \ Ancestors(b)

\* git rev-list --left-right --count HEAD...@{u}: "<left>\t<right>\n"
GitRevList(k) ==
  IF ~upstream[k]
  THEN { [exitCode |-> 128, stdout |-> NoText, stderr |-> TxtNoUpstream] }
  ELSE { [exitCode |-> 0,
          stdout |-> Decimal(Cardinality(OnlyIn(head[k], tracking[k])))
                       \o <<"\t">>
                       \o Decimal(Cardinality(OnlyIn(tracking[k], head[k])))
                       \o <<"\n">>,
          stderr |-> NoText],
         [exitCode |-> 128, stdout |-> NoText, stderr |-> TxtNotARepo] }

\* ---------------------------------------------------------------- process runner
\* variant of CommandOutcome: ok whatever the exit code
OutcomeAlwaysOk(o) ==
  [ok |-> TRUE, stdout |-> Trim(o.stdout), stderr |-> Trim(o.stderr)]

\* { ok, stdout, stderr } as gitSafe returns it
CommandOutcome(o) ==
  [ok |-> o.exitCode = 0, stdout |-> Trim(o.stdout), stderr |-> Trim(o.stderr)]

\* variant of Throws: a non-zero exit code is not checked
NeverThrows(o) == FALSE

\* git(): exitCode !== 0
Throws(o) == o.exitCode # 0

\* new GitError(args, exitCode, stdout.trim(), stderr.trim()), with
\* message `git ${args.join(" ")} exited ${exitCode}: ${stderr || stdout}`
GitError(args, o) ==
  [thrown |-> TRUE, name |-> "GitError", args |-> args,
   exitCode |-> o.exitCode, stdout |-> Trim(o.stdout),
   stderr |-> Trim(o.stderr),
   message |-> <<"git", args, "exited", ToString(o.exitCode), ":">>
                 \o OrElse(Trim(o.stderr), Trim(o.stdout))]

\* git(): the trimmed stdout of a command that exited 0
StrictOutput(o) == Trim(o.stdout)

\* the arguments of the commands the module runs with both helpers
RunnerArgs == {"rev-parse", "fetch"}

\* what a git process leaves: an exit code and the text of its two streams
ProcessResults ==
  { [exitCode |-> c, stdout |-> o, stderr |-> e] :
      c \in {0, 1, 128, 255},
      o \in { NoText, <<"out">>, <<" ", "out", "\n">>, <<"\n">> },
      e \in { NoText, <<"err", "\n">>, <<" ">> } }

\* no process has been spawned
NotRun == [mode |-> "none"]

InitRunner ==
  /\ proc = NotRun
  /\ ran = NotRun

\* gitSafe(args) with a process that ends as o
gitSafe(args, o) ==
  /\ proc' = [mode |-> "safe", args |-> args, exitCode |-> o.exitCode,
              stdout |-> o.stdout, stderr |-> o.stderr]
  /\ ran' = [mode |-> "safe", thrown |-> FALSE, value |-> CommandOutcome(o)]
  /\ UNCHANGED <<syncVars, serverVars, storeVars, browserVars>>

\* git(args) with a process that ends as o
git(args, o) ==
  /\ proc' = [mode |-> "strict", args |-> args, exitCode |-> o.exitCode,
              stdout |-> o.stdout, stderr |-> o.stderr]
  /\ ran' = IF Throws(o)
            THEN [mode |-> "strict", thrown |-> TRUE,
                  value |-> GitError(args, o)]
            ELSE [mode |-> "strict", thrown |-> FALSE,
                  value |-> StrictOutput(o)]
  /\ UNCHANGED <<syncVars, serverVars, storeVars, browserVars>>

\* ---------------------------------------------------------------- results
NoResult == [pending |-> TRUE]
NoOutcome == [ok |-> TRUE, stdout |-> NoText, stderr |-> NoText]

\* `git fetch failed: ${fetchResult.stderr || fetchResult.stdout}`
FetchError(r) ==
  [success |-> FALSE,
   error |-> <<"git", "fetch", "failed", ":">> \o OrElse(r.stderr, r.stdout)]

\* `git pull --ff-only failed: ${pullResult.stderr || pullResult.stdout}`
PullError(r) ==
  [success |-> FALSE,
   error |-> <<"git", "pull", "--ff-only", "failed", ":">>
               \o OrElse(r.stderr, r.stdout)]

\* `git commit failed: ${commitResult.stderr || commitResult.stdout}`
CommitError(r) ==
  [success |-> FALSE,
   error |-> <<"git", "commit", "failed", ":">> \o OrElse(r.stderr, r.stdout)]

\* variant of PushError: the failure carries no error text
PushErrorBare(r) == [success |-> FALSE]

\* `git push failed: ${pushResult.stderr || pushResult.stdout}`
PushError(r) ==
  [success |-> FALSE,
   error |-> <<"git", "push", "failed", ":">> \o OrElse(r.stderr, r.stdout)]

\* variant of FetchFailed: the early return is missing
FetchFailedIgnored(r) == FALSE

\* if (!fetchResult.ok) return ...
FetchFailed(r) == ~r.ok

\* variant of PullFailed: the early return is missing
PullFailedIgnored(r) == FALSE

\* if (!pullResult.ok) return ...
PullFailed(r) == ~r.ok

\* variant of CommitFailed: every commit failure is skipped over
CommitFailedIgnored(r) == FALSE

\* the commit step ends the call: not ok, and neither stream has the signal
CommitFailed(r) ==
  /\ ~r.ok
  /\ ~Includes(r.stdout, NOTHING_TO_COMMIT)
  /\ ~Includes(r.stderr, NOTHING_TO_COMMIT)

\* if (!pushResult.ok) return ...
PushFailed(r) == ~r.ok

\* ---------------------------------------------------------------- pull()
StartPull(t) ==
  /\ pc[t] = "idle"
  /\ pc' = [pc EXCEPT ![t] = "fetch"]
  /\ op' = [op EXCEPT ![t] = "pull"]
  /\ result' = [result EXCEPT ![t] = NoResult]
  /\ cmdResult' = [cmdResult EXCEPT ![t] = NoOutcome]
  /\ log' = [log EXCEPT ![t] = << >>]
  /\ made' = [made EXCEPT ![t] = 0]
  /\ UNCHANGED <<reqBody, changedFiles, commits, remote, head, tracking,
                 fstate, ckOf, upstream, message, serverVars, browserVars, runnerVars, storeVars>>

\* Step 1: const fetchResult = await gitSafe(["fetch"])
pull_fetch(t) ==
  /\ pc[t] = "fetch"
  /\ \E o \in GitFetch(ckOf[t]) :
       LET r == CommandOutcome(o) IN
       /\ tracking' = [tracking EXCEPT ![ckOf[t]] = o.tracking]
       /\ cmdResult' = [cmdResult EXCEPT ![t] = r]
       /\ log' = [log EXCEPT ![t] = Append(@, "fetch")]
       /\ IF FetchFailed(r)
          THEN /\ pc' = [pc EXCEPT ![t] = "idle"]
               /\ result' = [result EXCEPT ![t] = FetchError(r)]
          ELSE /\ pc' = [pc EXCEPT ![t] = "pull"]
               /\ UNCHANGED result
  /\ UNCHANGED <<reqBody, changedFiles, commits, remote, head, fstate, ckOf,
                 upstream, op, message, made, serverVars, browserVars, runnerVars, storeVars>>

\* Step 2: const pullResult = await gitSafe(["pull", "--ff-only"])
pull_pull(t) ==
  /\ pc[t] = "pull"
  /\ \E o \in GitPullFFOnly(ckOf[t]) :
       LET r == CommandOutcome(o) IN
       /\ tracking' = [tracking EXCEPT ![ckOf[t]] = o.tracking]
       /\ head' = [head EXCEPT ![ckOf[t]] = o.head]
       /\ commits' = o.commits
       /\ cmdResult' = [cmdResult EXCEPT ![t] = r]
       /\ log' = [log EXCEPT ![t] = Append(@, "pull")]
       /\ pc' = [pc EXCEPT ![t] = "idle"]
       /\ result' = [result EXCEPT ![t] =
                       IF PullFailed(r) THEN PullError(r)
                       ELSE [success |-> TRUE]]
  /\ UNCHANGED <<reqBody, changedFiles, remote, fstate, ckOf, upstream, op,
                 message, made, serverVars, browserVars, runnerVars, storeVars>>

\* ---------------------------------------------------------------- push()
\* commits that calls in flight may still create
PendingCommits == Cardinality({t \in Tasks : pc[t] \in {"add", "commit"}})

\* variant of CommitMessage: body.message || "Update catalogue"
CommitMessageUntrimmed(body) ==
  IF body.has /\ body.message # NoText THEN body.message ELSE DEFAULT_MESSAGE

\* POST /api/sync/push:
\* const message = body.message?.trim() || "Update catalogue"
CommitMessage(body) ==
  LET trimmed == IF body.has THEN Trim(body.message) ELSE NoText
  IN IF trimmed # NoText THEN trimmed ELSE DEFAULT_MESSAGE

StartPush(t, body) ==
  /\ pc[t] = "idle"
  /\ Len(commits) + PendingCommits < MaxCommits
  /\ pc' = [pc EXCEPT ![t] = "add"]
  /\ op' = [op EXCEPT ![t] = "push"]
  /\ reqBody' = [reqBody EXCEPT ![t] = body]
  /\ message' = [message EXCEPT ![t] = CommitMessage(body)]
  /\ result' = [result EXCEPT ![t] = NoResult]
  /\ cmdResult' = [cmdResult EXCEPT ![t] = NoOutcome]
  /\ log' = [log EXCEPT ![t] = << >>]
  /\ made' = [made EXCEPT ![t] = 0]
  /\ UNCHANGED <<changedFiles, commits, remote, head, tracking, fstate, ckOf,
                 upstream, serverVars, browserVars, runnerVars, storeVars>>

\* await git(["add", ...dataFiles])
push_add(t) ==
  /\ pc[t] = "add"
  /\ \E o \in GitAdd(ckOf[t]) :
       /\ fstate' = [fstate EXCEPT ![ckOf[t]] = o.fstate]
       /\ log' = [log EXCEPT ![t] = Append(@, "add")]
       /\ IF Throws(o)
          THEN /\ pc' = [pc EXCEPT ![t] = "idle"]
               /\ result' = [result EXCEPT ![t] = GitError("add", o)]
          ELSE /\ pc' = [pc EXCEPT ![t] = "commit"]
               /\ UNCHANGED result
  /\ UNCHANGED <<reqBody, changedFiles, commits, remote, head, tracking, ckOf,
                 upstream, op, message, cmdResult, made, serverVars, browserVars, runnerVars,
                 storeVars>>

\* const commitResult = await gitSafe(["commit", "-m", commitMessage])
push_commit(t) ==
  /\ pc[t] = "commit"
  /\ \E o \in GitCommit(ckOf[t]) :
       LET r == CommandOutcome(o) IN
       /\ commits' = o.commits
       /\ head' = [head EXCEPT ![ckOf[t]] = o.head]
       /\ fstate' = [fstate EXCEPT ![ckOf[t]] = o.fstate]
       /\ made' = [made EXCEPT ![t] = o.made]
       /\ cmdResult' = [cmdResult EXCEPT ![t] = r]
       /\ log' = [log EXCEPT ![t] = Append(@, "commit")]
       /\ IF CommitFailed(r)
          THEN /\ pc' = [pc EXCEPT ![t] = "idle"]
               /\ result' = [result EXCEPT ![t] = CommitError(r)]
          ELSE /\ pc' = [pc EXCEPT ![t] = "push"]
               /\ UNCHANGED result
  /\ UNCHANGED <<reqBody, changedFiles, remote, tracking, ckOf, upstream, op,
                 message, serverVars, browserVars, runnerVars, storeVars>>

\* const pushResult = await gitSafe(["push", "--force-with-lease"])
push_push(t) ==
  /\ pc[t] = "push"
  /\ \E o \in GitPushForceWithLease(ckOf[t]) :
       LET r == CommandOutcome(o) IN
       /\ remote' = o.remote
       /\ tracking' = [tracking EXCEPT ![ckOf[t]] = o.tracking]
       /\ cmdResult' = [cmdResult EXCEPT ![t] = r]
       /\ log' = [log EXCEPT ![t] = Append(@, "push")]
       /\ IF PushFailed(r)
          THEN /\ pc' = [pc EXCEPT ![t] = "idle"]
               /\ result' = [result EXCEPT ![t] = PushError(r)]
          ELSE /\ pc' = [pc EXCEPT ![t] = "rev-parse"]
               /\ UNCHANGED result
  /\ UNCHANGED <<reqBody, changedFiles, commits, head, fstate, ckOf, upstream,
                 op, message, made, serverVars, browserVars, runnerVars, storeVars>>

\* const sha = await git(["rev-parse", "--short", "HEAD"])
push_revparse(t) ==
  /\ pc[t] = "rev-parse"
  /\ log' = [log EXCEPT ![t] = Append(@, "rev-parse")]
  /\ pc' = [pc EXCEPT ![t] = "idle"]
  /\ \E o \in GitRevParse(ckOf[t]) :
       result' = [result EXCEPT ![t] =
                    IF Throws(o) THEN GitError("rev-parse", o)
                    ELSE [success |-> TRUE, sha |-> StrictOutput(o)]]
  /\ UNCHANGED <<reqBody, changedFiles, commits, remote, head, tracking,
                 fstate, ckOf, upstream, op, message, cmdResult, made,
                 serverVars, browserVars, runnerVars, storeVars>>

\* ---------------------------------------------------------------- status()
\* porcelain.split("\n").filter(Boolean).map((line) => line.slice(3).trim())
ChangedFiles(porcelain) ==
  LET lines == FilterBoolean(Split(porcelain, "\n"))
  IN [i \in 1..Len(lines) |-> Trim(Slice(lines[i], 3))]

\* parts[i] ?? "0" (i counted from 0)
PartOrZero(parts, i) == IF i + 1 <= Len(parts) THEN parts[i + 1] ELSE <<"0">>

\* variant of AheadBehind: the two counts taken in the other order
AheadBehindSwapped(r) ==
  IF r.ok
  THEN LET parts == SplitWhitespace(r.stdout)
       IN [ahead |-> ParseInt(PartOrZero(parts, 1)),
           behind |-> ParseInt(PartOrZero(parts, 0))]
  ELSE [ahead |-> 0, behind |-> 0]

\* variant of AheadBehind: the output is parsed whether or not the command
\* succeeded
AheadBehindUnchecked(r) ==
  LET parts == SplitWhitespace(r.stdout)
  IN [ahead |-> ParseInt(PartOrZero(parts, 0)),
      behind |-> ParseInt(PartOrZero(parts, 1))]

\* let ahead = 0; let behind = 0; if (revResult.ok) { ... parseInt ... }
AheadBehind(r) ==
  IF r.ok
  THEN LET parts == SplitWhitespace(r.stdout)
       IN [ahead |-> ParseInt(PartOrZero(parts, 0)),
           behind |-> ParseInt(PartOrZero(parts, 1))]
  ELSE [ahead |-> 0, behind |-> 0]

\* variant of Dirty: one changed file does not count
DirtyIfSeveral(changed) == Len(changed) > 1

\* dirty: changedFiles.length > 0
Dirty(changed) == Len(changed) > 0

\* return { dirty, ahead, behind, changedFiles }
SyncStatus(changed, r) ==
  [dirty |-> Dirty(changed), ahead |-> AheadBehind(r).ahead,
   behind |-> AheadBehind(r).behind, changedFiles |-> changed]

StartStatus(t) ==
  /\ pc[t] = "idle"
  /\ pc' = [pc EXCEPT ![t] = "status"]
  /\ op' = [op EXCEPT ![t] = "status"]
  /\ result' = [result EXCEPT ![t] = NoResult]
  /\ cmdResult' = [cmdResult EXCEPT ![t] = NoOutcome]
  /\ changedFiles' = [changedFiles EXCEPT ![t] = << >>]
  /\ log' = [log EXCEPT ![t] = << >>]
  /\ made' = [made EXCEPT ![t] = 0]
  /\ UNCHANGED <<commits, remote, head, tracking, fstate, ckOf, upstream,
                 reqBody, message, serverVars, browserVars, runnerVars, storeVars>>

\* const porcelain = await git(["status", "--porcelain", ...dataFiles])
status_porcelain(t) ==
  /\ pc[t] = "status"
  /\ log' = [log EXCEPT ![t] = Append(@, "status")]
  /\ \E o \in GitStatusPorcelain(ckOf[t]) :
       IF Throws(o)
       THEN /\ pc' = [pc EXCEPT ![t] = "idle"]
            /\ result' = [result EXCEPT ![t] = GitError("status", o)]
            /\ UNCHANGED changedFiles
       ELSE /\ pc' = [pc EXCEPT ![t] = "rev-list"]
            /\ changedFiles' = [changedFiles EXCEPT ![t] =
                                  ChangedFiles(StrictOutput(o))]
            /\ UNCHANGED result
  /\ UNCHANGED <<commits, remote, head, tracking, fstate, ckOf, upstream, op,
                 reqBody, message, cmdResult, made, serverVars, browserVars, runnerVars, storeVars>>

\* variant of status_revlist: the remote is fetched before the count
status_revlist_fetching(t) ==
  /\ pc[t] = "rev-list"
  /\ log' = [log EXCEPT ![t] = Append(@, "rev-list")]
  /\ pc' = [pc EXCEPT ![t] = "idle"]
  /\ tracking' = [tracking EXCEPT ![ckOf[t]] = remote]
  /\ \E o \in GitRevList(ckOf[t]) :
       LET r == CommandOutcome(o) IN
       /\ cmdResult' = [cmdResult EXCEPT ![t] = r]
       /\ result' = [result EXCEPT ![t] = SyncStatus(changedFiles[t], r)]
  /\ UNCHANGED <<commits, remote, head, fstate, ckOf, upstream, op, reqBody,
                 message, changedFiles, made, serverVars, browserVars, runnerVars, storeVars>>

\* const revResult = await gitSafe(["rev-list", "--left-right", "--count",
\* "HEAD...@{u}"]), then the return
status_revlist(t) ==
  /\ pc[t] = "rev-list"
  /\ log' = [log EXCEPT ![t] = Append(@, "rev-list")]
  /\ pc' = [pc EXCEPT ![t] = "idle"]
  /\ \E o \in GitRevList(ckOf[t]) :
       LET r == CommandOutcome(o) IN
       /\ cmdResult' = [cmdResult EXCEPT ![t] = r]
       /\ result' = [result EXCEPT ![t] = SyncStatus(changedFiles[t], r)]
  /\ UNCHANGED <<commits, remote, head, tracking, fstate, ckOf, upstream, op,
                 reqBody, message, changedFiles, made, serverVars, browserVars,
                              runnerVars, storeVars>>

\* ---------------------------------------------------------------- HTTP boundary
\* the call of task t has finished: returned or thrown
Finished(t) == pc[t] = "idle" /\ op[t] # "none"

\* the call of task t ended in a throw
Thrown(t) == Finished(t) /\ "thrown" \in DOMAIN result[t]

\* variant of ResultStatus: every result is answered 200
ResultStatusAlwaysOk(r) == 200

\* { status: result.success ? 200 : 409 }
ResultStatus(r) == IF r.success THEN 200 ELSE 409

\* apiError: Response.json({ error: message }, { status: 500 })
apiError(err) == [status |-> 500, body |-> [error |-> err.message]]

\* the response of the finished request of task t:
\* handleSync(req).catch(apiError)
handleSync(t) ==
  IF Thrown(t) THEN apiError(result[t])
  ELSE IF op[t] = "status" THEN [status |-> 200, body |-> result[t]]
  ELSE [status |-> ResultStatus(result[t]), body |-> result[t]]

\* ---------------------------------------------------------------- environment
\* writeBooks / writeConfig: a record-store handler rewrites a data file
WriteData(k, f) ==
  /\ f \in dataFiles
  /\ WriteFile(fstate[k][f]) # fstate[k][f]
  /\ fstate' = [fstate EXCEPT ![k][f] = WriteFile(@)]
  /\ UNCHANGED <<reqBody, changedFiles, commits, remote, head, tracking, ckOf,
                 upstream, pc, op, message, cmdResult, result, log, made,
                 serverVars, browserVars, runnerVars, storeVars>>

\* the operator changes the checkout outside the editor: edits or stages
\* another file of the site, or leaves an untracked file behind
OperatorChange(k) ==
  /\ \E s \in {" M", "M "} :
       \/ /\ fstate[k][OtherFile] = Clean
          /\ fstate' = [fstate EXCEPT ![k][OtherFile] = s]
       \/ /\ fstate[k][JunkFile] = Clean
          /\ fstate' = [fstate EXCEPT ![k][JunkFile] = "??"]
  /\ UNCHANGED <<reqBody, changedFiles, commits, remote, head, tracking, ckOf,
                 upstream, pc, op, message, cmdResult, result, log, made,
                 serverVars, browserVars, runnerVars, storeVars>>

\* another client pushes a commit on top of the remote branch
ExternalPush ==
  /\ Len(commits) + PendingCommits < MaxCommits
  /\ \E f \in TrackedFiles :
       commits' = Append(commits, [parents |-> {remote}, files |-> {f}])
  /\ remote' = Len(commits) + 1
  /\ UNCHANGED <<reqBody, changedFiles, head, tracking, fstate, ckOf,
                 upstream, pc, op, message, cmdResult, result, log, made,
                 serverVars, browserVars, runnerVars, storeVars>>

\* ---------------------------------------------------------------- record store
\* an object without properties
NoFields == << >>

\* { ...a, ...b }: the properties of b over those of a
Spread(a, b) ==
  [f \in DOMAIN a \cup DOMAIN b |-> IF f \in DOMAIN b THEN b[f] ELSE a[f]]

\* arr.findIndex(test), counted from 1; 0 stands for -1
FindIndex(arr, Test(_)) ==
  IF \E i \in 1..Len(arr) : Test(arr[i])
  THEN CHOOSE i \in 1..Len(arr) :
         Test(arr[i]) /\ \A h \in 1..(i - 1) : ~Test(arr[h])
  ELSE 0

\* variant of Without: the last element is dropped, whatever idx is
WithoutLast(arr, idx) == SubSeq(arr, 1, Len(arr) - 1)

\* arr.splice(idx, 1) leaves arr without its element idx
Without(arr, idx) == SubSeq(arr, 1, idx - 1) \o SubSeq(arr, idx + 1, Len(arr))

\* books.reduce((max, b) => Math.max(max, b.id), 0)
RECURSIVE MaxBookId(_)
MaxBookId(books) ==
  IF books = << >> THEN 0
  ELSE LET rest == MaxBookId(SubSeq(books, 1, Len(books) - 1))
           last == books[Len(books)].id
       IN IF last > rest THEN last ELSE rest

\* titles, as opaque values
Titles == {"Guida ai Funghi", "Bollettino AMB"}

\* tag labels as typed: sequences of characters
LabelTexts == { <<"A">>, <<"B">>, <<" ", "A", " ">>, <<" ">> }

\* the trimmed labels a stored tag or book can carry
StoredLabels == { Trim(l) : l \in LabelTexts } \ { NoText }

\* the tags arrays in the requests that edit other fields
FewTagLists == { << >>, <<<<"A">>>> }

\* label.toLowerCase().normalize("NFD").replace(/[\u0300-\u036f]/g, ""):
\* one character, lower-cased and without its accent
LowerPlain(c) ==
  CASE c = "A" -> "a"
    [] c = "B" -> "b"
    [] OTHER -> c

IsSlugChar(c) == c \in {"a", "b"}

\* .replace(/[^a-z0-9]+/g, "-"): each run of other characters becomes "-"
RECURSIVE DashRuns(_)
DashRuns(s) ==
  IF s = NoText THEN NoText
  ELSE IF IsSlugChar(Head(s)) THEN <<Head(s)>> \o DashRuns(Tail(s))
  ELSE IF Len(s) > 1 /\ ~IsSlugChar(s[2]) THEN DashRuns(Tail(s))
  ELSE <<"-">> \o DashRuns(Tail(s))

\* .replace(/^-|-$/g, "")
StripDashes(s) ==
  LET a == IF s # NoText /\ Head(s) = "-" THEN Tail(s) ELSE s
  IN IF a # NoText /\ a[Len(a)] = "-" THEN SubSeq(a, 1, Len(a) - 1) ELSE a

\* _slugify(label)
slugify(label) ==
  StripDashes(DashRuns([i \in 1..Len(label) |-> LowerPlain(label[i])]))

\* body.f?.trim(): undefined when the body has no property f
TrimmedField(body, f) ==
  IF f \in DOMAIN body THEN [has |-> TRUE, text |-> Trim(body[f])]
  ELSE [has |-> FALSE, text |-> NoText]

\* bodies of POST /api/books
NewBookBodies ==
  { Spread([titolo |-> t, tags |-> g], x) :
      t \in Titles, g \in FewTagLists,
      x \in { NoFields } \cup { [id |-> i] : i \in 1..MaxId } }

\* bodies of PUT /api/books/:id
BookUpdates ==
  { NoFields }
  \cup { [titolo |-> t] : t \in Titles }
  \cup { [tags |-> g] : g \in FewTagLists }
  \cup { [id |-> i, titolo |-> t] : i \in 1..MaxId, t \in Titles }

\* bodies of PUT /api/books/:id that set the tags of a book: none, one, two
\* different ones, the same one twice
TagEdits ==
  { [tags |-> g] :
      g \in { << >>, <<<<"B">>>>, <<<<"A">>, <<"B">>>>, <<<<"A">>, <<"A">>>> } }

\* bodies of POST /api/tags and PUT /api/tags/:id
TagBodies ==
  { NoFields, [description |-> <<" ", "d">>] }
  \cup { [label |-> l] : l \in LabelTexts }
  \cup { [label |-> l, description |-> <<" ", "d">>] :
           l \in { <<"A">>, <<"B">> } }
  \cup { [label |-> <<"B">>, id |-> i] : i \in { <<" ", "a">>, <<" ">> } }

\* the ids a path can name
BookIds == 1..MaxId
TagIds == { slugify(l) : l \in StoredLabels }

\* new Response(text, { status }): a plain-text answer
Text(status, text) == [status |-> status, body |-> [text |-> text]]

NotFound == Text(404, "Not found")

Json(status, body) == [status |-> status, body |-> body]

\* POST /api/books
PostBook(body) ==
  LET books == booksStore
      nextId == MaxBookId(books) + 1
      newBook == Spread([id |-> nextId], body)
  IN /\ Len(books) < MaxBooks /\ nextId <= MaxId
     /\ booksStore' = Append(books, newBook)
     /\ written' = {BOOKS}
     /\ lastResponse' = Json(201, newBook)
     /\ UNCHANGED <<configStore, syncVars, serverVars, browserVars, runnerVars>>

\* variant of Merged: the path id is written before the body's fields
MergedBodyLast(old, update, id) == Spread(Spread(old, [id |-> id]), update)

\* { ...books[idx], ...update, id }
Merged(old, update, id) == Spread(Spread(old, update), [id |-> id])

\* PUT /api/books/:id
PutBook(id, update) ==
  LET books == booksStore
      Has(b) == b.id = id
      idx == FindIndex(books, Has)
  IN /\ IF idx = 0
        THEN lastResponse' = NotFound /\ written' = {} /\ UNCHANGED booksStore
        ELSE LET merged == Merged(books[idx], update, id)
             IN /\ booksStore' = [books EXCEPT ![idx] = merged]
                /\ written' = {BOOKS}
                /\ lastResponse' = Json(200, merged)
     /\ UNCHANGED <<configStore, syncVars, serverVars, browserVars, runnerVars>>

\* DELETE /api/books/:id
DeleteBook(id) ==
  LET books == booksStore
      Has(b) == b.id = id
      idx == FindIndex(books, Has)
  IN /\ IF idx = 0
        THEN lastResponse' = NotFound /\ written' = {} /\ UNCHANGED booksStore
        ELSE /\ booksStore' = Without(books, idx)
             /\ written' = {BOOKS}
             /\ lastResponse' = Json(200, books[idx])
     /\ UNCHANGED <<configStore, syncVars, serverVars, browserVars, runnerVars>>

\* variant of PostTag: the id is not looked up among the stored tags
PostTagUnchecked(body) ==
  LET label == TrimmedField(body, "label").text
      given == TrimmedField(body, "id").text
      id == IF given # NoText THEN given ELSE slugify(label)
      description == TrimmedField(body, "description")
      newTag == Spread([id |-> id, label |-> label],
                       IF description.has
                       THEN [description |-> description.text]
                       ELSE NoFields)
  IN /\ IF label = NoText
        THEN /\ lastResponse' = Text(400, "label is required")
             /\ written' = {}
             /\ UNCHANGED configStore
        ELSE /\ Len(configStore.tags) < 3
             /\ configStore' =
                  [configStore EXCEPT !.tags = Append(@, newTag)]
             /\ written' = {CONFIG}
             /\ lastResponse' = Json(201, newTag)
     /\ UNCHANGED <<booksStore, syncVars, serverVars, browserVars, runnerVars>>

\* variant of PostTag: the tag is stored before its id is looked up, so a
\* request refused with 409 has written the config
PostTagStoresFirst(body) ==
  LET label == TrimmedField(body, "label").text
      given == TrimmedField(body, "id").text
      id == IF given # NoText THEN given ELSE slugify(label)
      Same(t) == t.id = id
      description == TrimmedField(body, "description")
      newTag == Spread([id |-> id, label |-> label],
                       IF description.has
                       THEN [description |-> description.text]
                       ELSE NoFields)
  IN /\ IF label = NoText
        THEN /\ lastResponse' = Text(400, "label is required")
             /\ written' = {}
             /\ UNCHANGED configStore
        ELSE /\ configStore' =
                  [configStore EXCEPT !.tags = Append(@, newTag)]
             /\ written' = {CONFIG}
             /\ lastResponse' =
                  IF \E i \in 1..Len(configStore.tags) :
                       Same(configStore.tags[i])
                  THEN Text(409, "tag id already exists")
                  ELSE Json(201, newTag)
     /\ UNCHANGED <<booksStore, syncVars, serverVars, browserVars, runnerVars>>

\* POST /api/tags
PostTag(body) ==
  LET label == TrimmedField(body, "label").text
      given == TrimmedField(body, "id").text
      id == IF given # NoText THEN given ELSE slugify(label)
      Same(t) == t.id = id
      description == TrimmedField(body, "description")
      newTag == Spread([id |-> id, label |-> label],
                       IF description.has
                       THEN [description |-> description.text]
                       ELSE NoFields)
  IN /\ IF label = NoText
        THEN /\ lastResponse' = Text(400, "label is required")
             /\ written' = {}
             /\ UNCHANGED configStore
        ELSE IF \E i \in 1..Len(configStore.tags) : Same(configStore.tags[i])
        THEN /\ lastResponse' = Text(409, "tag id already exists")
             /\ written' = {}
             /\ UNCHANGED configStore
        ELSE /\ configStore' =
                  [configStore EXCEPT !.tags = Append(@, newTag)]
             /\ written' = {CONFIG}
             /\ lastResponse' = Json(201, newTag)
     /\ UNCHANGED <<booksStore, syncVars, serverVars, browserVars, runnerVars>>

\* book.tags.indexOf(label), counted from 1; 0 stands for -1
IndexOf(tags, label) ==
  LET Is(l) == l = label IN FindIndex(tags, Is)

\* const tagIdx = book.tags.indexOf(oldLabel);
\* if (tagIdx !== -1) book.tags[tagIdx] = newLabel
RenameIn(book, oldLabel, newLabel) ==
  LET tagIdx == IndexOf(book.tags, oldLabel)
  IN IF tagIdx # 0 THEN [book EXCEPT !.tags[tagIdx] = newLabel] ELSE book

\* the number of books the loop counted: those whose tags hold the label
CountCarrying(books, label) ==
  Cardinality({ i \in 1..Len(books) : IndexOf(books[i].tags, label) # 0 })

\* variant of Cascades: the books are rewritten on every accepted PUT
CascadesAlways(oldLabel, newLabel) == TRUE

\* if (oldLabel !== newLabel)
Cascades(oldLabel, newLabel) == oldLabel # newLabel

\* PUT /api/tags/:id
PutTag(id, body) ==
  LET newLabel == TrimmedField(body, "label").text
      config == configStore
      Has(t) == t.id = id
      idx == FindIndex(config.tags, Has)
  IN IF newLabel = NoText
     THEN /\ lastResponse' = Text(400, "label is required")
          /\ written' = {}
          /\ UNCHANGED <<booksStore, configStore, syncVars, serverVars, browserVars, runnerVars>>
     ELSE IF idx = 0
     THEN /\ lastResponse' = NotFound
          /\ written' = {}
          /\ UNCHANGED <<booksStore, configStore, syncVars, serverVars, browserVars, runnerVars>>
     ELSE
       LET oldTag == config.tags[idx]
           oldLabel == oldTag.label
           description == TrimmedField(body, "description")
           newTag == Spread(Spread(oldTag, [label |-> newLabel]),
                            IF description.has
                            THEN [description |-> description.text]
                            ELSE NoFields)
           cascade == Cascades(oldLabel, newLabel)
       IN /\ configStore' = [config EXCEPT !.tags[idx] = newTag]
          /\ booksStore' =
               IF cascade
               THEN [i \in 1..Len(booksStore) |->
                       RenameIn(booksStore[i], oldLabel, newLabel)]
               ELSE booksStore
          /\ written' = IF cascade THEN {BOOKS, CONFIG} ELSE {CONFIG}
          /\ lastResponse' =
               Json(200, [tag |-> newTag,
                          affectedBooks |->
                            IF cascade
                            THEN CountCarrying(booksStore, oldLabel)
                            ELSE 0])
          /\ UNCHANGED <<syncVars, serverVars, browserVars, runnerVars>>

\* variant of StripFrom: the first occurrence only is removed
StripFirstFrom(book, label) ==
  LET tagIdx == IndexOf(book.tags, label)
  IN IF tagIdx # 0 THEN [book EXCEPT !.tags = Without(@, tagIdx)] ELSE book

\* book.tags = book.tags.filter((t) => t !== removedLabel)
StripFrom(book, label) ==
  LET Other(l) == l # label
  IN [book EXCEPT !.tags = SelectSeq(@, Other)]

\* DELETE /api/tags/:id
DeleteTag(id) ==
  LET config == configStore
      Has(t) == t.id = id
      idx == FindIndex(config.tags, Has)
  IN IF idx = 0
     THEN /\ lastResponse' = NotFound
          /\ written' = {}
          /\ UNCHANGED <<booksStore, configStore, syncVars, serverVars, browserVars, runnerVars>>
     ELSE
       LET removed == config.tags[idx]
           stripped == [i \in 1..Len(booksStore) |->
                          StripFrom(booksStore[i], removed.label)]
       IN /\ configStore' = [config EXCEPT !.tags = Without(@, idx)]
          /\ booksStore' = stripped
          /\ written' = {BOOKS, CONFIG}
          /\ lastResponse' =
               Json(200, [removed |-> removed,
                          affectedBooks |->
                            Cardinality({ i \in 1..Len(booksStore) :
                              Len(stripped[i].tags)
                                # Len(booksStore[i].tags) })])
          /\ UNCHANGED <<syncVars, serverVars, browserVars, runnerVars>>

\* a small catalogue, shaped as the one the handlers' tests start from: two
\* books that share a label, a tag with a description and one without
SeedBooks ==
  << [id |-> 1, titolo |-> "Guida ai Funghi", tags |-> <<<<"A">>, <<"B">>>>],
     [id |-> 2, titolo |-> "Bollettino AMB", tags |-> <<<<"A">>>>] >>

SeedConfig ==
  [tags |-> << [id |-> <<"a">>, label |-> <<"A">>,
                description |-> <<"d">>],
               [id |-> <<"b">>, label |-> <<"B">>] >>,
   ratings |-> << [value |-> 1, label |-> <<"R">>] >>]

\* no request has been answered yet
NoResponse == [status |-> 0, body |-> [text |-> "none"]]

InitStore ==
  /\ booksStore = SeedBooks
  /\ configStore = SeedConfig
  /\ lastResponse = NoResponse
  /\ written = {}

\* ---------------------------------------------------------------- /api/config
\* the methods of the requests sent to /api/config
Methods == {"GET", "POST", "PUT", "DELETE"}

\* tags and ratings a posted config can hold
PostableTags ==
  { [id |-> <<"a">>, label |-> <<"A">>],
    [id |-> <<"a">>, label |-> <<"B">>, description |-> <<"d">>],
    [id |-> <<"b">>, label |-> <<"B">>],
    [id |-> <<"b">>, label |-> <<"A">>] }

\* bodies of POST /api/config: configs of up to two tags
ConfigBodies ==
  { [tags |-> t, ratings |-> r] :
      t \in { << >> } \cup { <<x>> : x \in PostableTags }
            \cup { <<x, y>> : x \in PostableTags, y \in PostableTags },
      r \in { << >>, SeedConfig.ratings } }

\* variant of IsPost: PUT is taken for POST
IsPostOrPut(method) == method \in {"POST", "PUT"}

\* req.method === "POST"
IsPost(method) == method = "POST"

\* handleConfig(req) for a request to /api/config
handleConfig(method, body) ==
  /\ IF method = "GET"
     THEN /\ lastResponse' = Json(200, configStore)
          /\ written' = {}
          /\ UNCHANGED configStore
     ELSE IF IsPost(method)
     THEN /\ configStore' = body
          /\ written' = {CONFIG}
          /\ lastResponse' = Json(200, body)
     ELSE /\ lastResponse' = Text(405, "Method not allowed")
          /\ written' = {}
          /\ UNCHANGED configStore
  /\ UNCHANGED <<booksStore, syncVars, serverVars, browserVars, runnerVars>>

\* ---------------------------------------------------------------- store.js
\* the functions the page passes to store.onChange
Callbacks == 1..MaxCallbacks

\* the books the page puts in the store; they carry no volume
PageBooks == { [id |-> i, titolo |-> t] : i \in {1, 2}, t \in Titles }

\* the arrays loadData passes to setBooks
LoadedBooks ==
  { << >> } \cup { <<b>> : b \in PageBooks }
  \cup { <<[id |-> 1, titolo |-> "Guida ai Funghi"],
            [id |-> 2, titolo |-> "Bollettino AMB"]>> }

\* the configs the page puts in the store
PageConfigs == { [tags |-> << >>, ratings |-> << >>], SeedConfig }

\* String(a.titolo).localeCompare(String(b.titolo)) orders the titles
TitleRank(t) == IF t = "Bollettino AMB" THEN 1 ELSE 2

\* a.titolo compared with b.titolo, then the volumes, which are equal here
ComesAfter(a, b) == TitleRank(a.titolo) > TitleRank(b.titolo)

\* _sort(arr): arr.slice().sort(...), a stable sort
RECURSIVE Sorted(_)
Sorted(arr) ==
  IF arr = << >> THEN << >>
  ELSE LET front == Sorted(SubSeq(arr, 1, Len(arr) - 1))
           x == arr[Len(arr)]
           k == Cardinality({ i \in 1..Len(front) : ~ComesAfter(front[i], x) })
       IN SubSeq(front, 1, k) \o <<x>> \o SubSeq(front, k + 1, Len(front))

\* _subscribers.add(fn): a Set keeps one entry per function, in the order
\* of insertion
SetAdd(set, fn) ==
  IF \E i \in 1..Len(set) : set[i] = fn THEN set ELSE Append(set, fn)

\* variant of SetDelete: the entry stays
SetDeleteNothing(set, fn) == set

\* _subscribers.delete(fn)
SetDelete(set, fn) == LET Other(g) == g # fn IN SelectSeq(set, Other)

\* _notify() starts: for (const fn of _subscribers)
Notify ==
  /\ queue' = subscribers
  /\ invoked' = [fn \in Callbacks |-> 0]
  /\ UNCHANGED <<subscribers, lastEvent, syncVars, serverVars, storeVars,
                 widgetVars, runnerVars>>

\* no call of the store is running: a mutation and its callbacks run to
\* completion before the next event of the page
PageIdle == queue = << >>

\* fn(): the next callback of the running _notify(); the callbacks of the
\* page (sync.js, script.js) do not call the store
notify_call ==
  /\ queue # << >>
  /\ invoked' = [invoked EXCEPT ![Head(queue)] = @ + 1]
  /\ queue' = Tail(queue)
  /\ UNCHANGED <<uiBooks, uiConfig, subscribers, lastEvent, syncVars,
                 serverVars, storeVars, widgetVars, runnerVars>>

\* store.setBooks(books)
setBooks(books) ==
  /\ PageIdle
  /\ uiBooks' = Sorted(books)
  /\ UNCHANGED uiConfig
  /\ Notify

\* store.setConfig(config)
setConfig(config) ==
  /\ PageIdle
  /\ uiConfig' = config
  /\ UNCHANGED uiBooks
  /\ Notify

\* store.upsertBook(book)
upsertBook(book) ==
  LET Same(b) == b.id = book.id
      idx == FindIndex(uiBooks, Same)
  IN /\ PageIdle
     /\ IF idx = 0
        THEN /\ Len(uiBooks) < MaxBooks
             /\ uiBooks' = Sorted(Append(uiBooks, book))
        ELSE uiBooks' = [uiBooks EXCEPT ![idx] = book]
     /\ UNCHANGED uiConfig
     /\ Notify

\* store.removeBook(id)
removeBook(id) ==
  LET Other(b) == b.id # id
  IN /\ PageIdle
     /\ uiBooks' = SelectSeq(uiBooks, Other)
     /\ UNCHANGED uiConfig
     /\ Notify

\* store.restoreBook(book, atIndex): _books.splice(atIndex, 0, book)
restoreBook(book, atIndex) ==
  /\ PageIdle
  /\ Len(uiBooks) < MaxBooks
  /\ atIndex \in 0..Len(uiBooks)
  /\ uiBooks' = SubSeq(uiBooks, 1, atIndex) \o <<book>>
                  \o SubSeq(uiBooks, atIndex + 1, Len(uiBooks))
  /\ UNCHANGED uiConfig
  /\ Notify

\* store.onChange(fn)
onChange(fn) ==
  /\ PageIdle
  /\ subscribers' = SetAdd(subscribers, fn)
  /\ lastEvent' = [lastEvent EXCEPT ![fn] = "subscribed"]
  /\ UNCHANGED <<uiBooks, uiConfig, queue, invoked, syncVars, serverVars,
                 storeVars, widgetVars, runnerVars>>

\* the function onChange(fn) returned is called: () => _subscribers.delete(fn)
unsubscribe(fn) ==
  /\ PageIdle
  /\ lastEvent[fn] # "none"
  /\ subscribers' = SetDelete(subscribers, fn)
  /\ lastEvent' = [lastEvent EXCEPT ![fn] = "unsubscribed"]
  /\ UNCHANGED <<uiBooks, uiConfig, queue, invoked, syncVars, serverVars,
                 storeVars, widgetVars, runnerVars>>

\* let _status = null
NoStatus == [null |-> TRUE]

\* the page is loaded: the store is empty and nothing is subscribed; the
\* widget is built and shows "Controllo..."
InitPage ==
  /\ uiBooks = << >>
  /\ uiConfig = [tags |-> << >>, ratings |-> << >>]
  /\ subscribers = << >>
  /\ queue = << >>
  /\ invoked = [fn \in Callbacks |-> 0]
  /\ lastEvent = [fn \in Callbacks |-> "none"]
  /\ uiStatus = NoStatus
  /\ pushing = FALSE
  /\ button = [disabled |-> FALSE, display |-> "none", loading |-> FALSE]
  /\ indicator = "loading"
  /\ pcPush = "idle"
  /\ polls = 0
  /\ inflight = 0
  /\ posted = 0
  /\ clicks = 0

\* ---------------------------------------------------------------- sync.js
\* the SyncStatus bodies GET /api/sync/status answers with, as far as the
\* widget reads them
StatusAnswers == { [dirty |-> d, ahead |-> a] : d \in BOOLEAN, a \in {0, 1} }

\* the ways a fetch of the widget ends: with a body, or with an error
\* (rejected, or !res.ok for the status request)
FetchFails == [failed |-> TRUE]

\* _render(): what it leaves of the button and the indicator; with _status
\* null and no push running the destructuring throws and nothing is drawn
Rendered(status, isPushing, btn, ind) ==
  IF isPushing
  THEN [button |-> [btn EXCEPT !.display = "none"], indicator |-> "pushing",
        threw |-> FALSE]
  ELSE IF status = NoStatus
  THEN [button |-> btn, indicator |-> ind, threw |-> TRUE]
  ELSE IF ~(status.dirty \/ status.ahead > 0)
  THEN [button |-> [btn EXCEPT !.display = "none"], indicator |-> "clean",
        threw |-> FALSE]
  ELSE [button |-> [btn EXCEPT !.display = ""], indicator |-> "dirty",
        threw |-> FALSE]

\* _renderError()
RenderedError(btn) ==
  [button |-> [btn EXCEPT !.display = "none"], indicator |-> "error"]

\* the body of refresh() once its fetch has ended with answer: _status and
\* the widget as they are left
Refreshed(answer, status, isPushing, btn, ind) ==
  IF answer = FetchFails
  THEN [status |-> status, button |-> RenderedError(btn).button,
        indicator |-> "error"]
  ELSE LET drawn == Rendered(answer, isPushing, btn, ind)
       IN [status |-> answer, button |-> drawn.button,
           indicator |-> drawn.indicator]

\* variant of AlreadyPushing: the guard is missing
AlreadyPushingIgnored == FALSE

\* if (_pushing) return
AlreadyPushing == pushing

\* the finally block of _handlePush, entered with the widget as btn, ind:
\* _pushing = false, the button enabled, the class removed, _render()
Finally(status, btn, ind) ==
  Rendered(status, FALSE,
           [btn EXCEPT !.disabled = FALSE, !.loading = FALSE], ind)

\* a click event of the push button runs _handlePush() up to its fetch
click ==
  /\ clicks < MaxClicks
  /\ clicks' = clicks + 1
  /\ IF AlreadyPushing
     THEN UNCHANGED <<pushing, button, indicator, pcPush, inflight, posted>>
     ELSE /\ pushing' = TRUE
          /\ button' = [disabled |-> TRUE, loading |-> TRUE,
                        display |-> "none"]
          /\ indicator' = "pushing"
          /\ pcPush' = "fetch"
          /\ inflight' = inflight + 1
          /\ posted' = posted + 1
  /\ UNCHANGED <<uiStatus, polls, pageStoreVars, syncVars, serverVars,
                 storeVars, runnerVars>>

\* the POST /api/sync/push of _handlePush ends: with success true (refresh()
\* is called and awaited), with a body without success, or with an error
push_settles(outcome) ==
  /\ pcPush = "fetch"
  /\ inflight' = inflight - 1
  /\ IF outcome = "success"
     THEN /\ pcPush' = "refresh"
          /\ UNCHANGED <<pushing, button, indicator>>
     ELSE LET drawn == Rendered(uiStatus, pushing, button, indicator)
              done == Finally(uiStatus, drawn.button, drawn.indicator)
          IN /\ pcPush' = "idle"
             /\ pushing' = FALSE
             /\ button' = done.button
             /\ indicator' = done.indicator
  /\ UNCHANGED <<uiStatus, polls, clicks, posted, pageStoreVars, syncVars,
                 serverVars, storeVars, runnerVars>>

\* the refresh() awaited by _handlePush ends, then the finally block runs
push_refreshed(answer) ==
  LET shown == Refreshed(answer, uiStatus, pushing, button, indicator)
      done == Finally(shown.status, shown.button, shown.indicator)
  IN /\ pcPush = "refresh"
     /\ pcPush' = "idle"
     /\ uiStatus' = shown.status
     /\ pushing' = FALSE
     /\ button' = done.button
     /\ indicator' = done.indicator
     /\ UNCHANGED <<polls, clicks, inflight, posted, pageStoreVars, syncVars,
                    serverVars, storeVars, runnerVars>>

\* a timer calls refresh(): the poll, or the one set by a store change
poll ==
  /\ polls < MaxPolls
  /\ polls' = polls + 1
  /\ UNCHANGED <<uiStatus, pushing, button, indicator, pcPush, clicks,
                 inflight, posted, pageStoreVars, syncVars, serverVars,
                 storeVars, runnerVars>>

\* the fetch of a refresh() called by a timer ends
poll_settles(answer) ==
  LET shown == Refreshed(answer, uiStatus, pushing, button, indicator)
  IN /\ polls > 0
     /\ polls' = polls - 1
     /\ uiStatus' = shown.status
     /\ button' = shown.button
     /\ indicator' = shown.indicator
     /\ UNCHANGED <<pushing, pcPush, clicks, inflight, posted, pageStoreVars,
                    syncVars, serverVars, storeVars, runnerVars>>

\* ---------------------------------------------------------------- startup
\* let startupStatus = { checked: false, success: false }
NotChecked == [checked |-> FALSE, success |-> FALSE]

\* setStartupStatus(result): startupStatus = { checked: true, ...result }
setStartupStatus(r) ==
  [f \in {"checked"} \cup DOMAIN r |-> IF f \in DOMAIN r THEN r[f] ELSE TRUE]

\* variant of handleStatus: the answer is made from the result of the
\* last sync call
handleStatusOfLastCall == [status |-> 200, body |-> setStartupStatus(result[1])]

\* GET /api/status: Response.json(startupStatus)
handleStatus == [status |-> 200, body |-> startupStatus]

\* the store requests the server can be handling at once
Handlers == {1, 2}

\* no store request is being handled
Waiting == [at |-> "waiting"]

\* the server is up after a startup pull that succeeded
InitServing ==
  /\ phase = "serving"
  /\ startupStatus = setStartupStatus([success |-> TRUE])
  /\ handlers = [h \in Handlers |-> Waiting]

\* the process has just been launched: nothing has run yet
InitBoot ==
  /\ phase = "boot"
  /\ startupStatus = NotChecked
  /\ handlers = [h \in Handlers |-> Waiting]

\* variant of startup_pull: the pull is started but not awaited, so that
\* Bun.serve runs while it is in flight
startup_pull_unawaited ==
  /\ phase = "boot" /\ pc[1] = "idle"
  /\ phase' = "serving"
  /\ pc' = [pc EXCEPT ![1] = "fetch"]
  /\ op' = [op EXCEPT ![1] = "pull"]
  /\ result' = [result EXCEPT ![1] = NoResult]
  /\ cmdResult' = [cmdResult EXCEPT ![1] = NoOutcome]
  /\ log' = [log EXCEPT ![1] = << >>]
  /\ made' = [made EXCEPT ![1] = 0]
  /\ UNCHANGED <<reqBody, changedFiles, commits, remote, head, tracking,
                 fstate, ckOf, upstream, message, startupStatus, handlers,
                 storeVars, browserVars, runnerVars>>

\* const startupPull = await pull(): the call is made, the module waits
startup_pull ==
  /\ phase = "boot" /\ pc[1] = "idle"
  /\ phase' = "pulling"
  /\ pc' = [pc EXCEPT ![1] = "fetch"]
  /\ op' = [op EXCEPT ![1] = "pull"]
  /\ result' = [result EXCEPT ![1] = NoResult]
  /\ cmdResult' = [cmdResult EXCEPT ![1] = NoOutcome]
  /\ log' = [log EXCEPT ![1] = << >>]
  /\ made' = [made EXCEPT ![1] = 0]
  /\ UNCHANGED <<reqBody, changedFiles, commits, remote, head, tracking,
                 fstate, ckOf, upstream, message, startupStatus, handlers,
                 storeVars, browserVars, runnerVars>>

\* the pull has returned: setStartupStatus(startupPull), then Bun.serve(...)
startup_continue ==
  /\ phase = "pulling" /\ pc[1] = "idle"
  /\ startupStatus' = setStartupStatus(result[1])
  /\ phase' = "serving"
  /\ UNCHANGED <<syncVars, handlers, storeVars, browserVars, runnerVars>>

\* GET /api/status, answered by the running server
GetStatus ==
  /\ phase = "serving"
  /\ lastResponse' = handleStatus
  /\ written' = {}
  /\ UNCHANGED <<booksStore, configStore, syncVars, serverVars, browserVars, runnerVars>>

\* POST /api/sync/pull, accepted by the running server
PostSyncPull ==
  /\ phase = "serving"
  /\ StartPull(1)

\* POST /api/sync/push, accepted by the running server
PostSyncPush ==
  /\ phase = "serving"
  /\ StartPush(1, NoBody)

\* ------------------------------------------------- overlapping store requests
\* Bun.serve calls the handler of a request while the handler of another is
\* suspended at an await: the handlers below take one step per file read
\* or written.

\* the requests that reach the store handlers while another is being handled
OverlapRequests ==
  { [kind |-> "POST", id |-> 0, tag |-> NoText,
      body |-> [titolo |-> "Bollettino AMB", tags |-> << >>]] }
  \cup { [kind |-> "PUT", id |-> i, tag |-> NoText,
           body |-> [tags |-> <<<<"B">>>>]] : i \in {1, 2} }
  \cup { [kind |-> "DELETE", id |-> i, tag |-> NoText, body |-> NoFields] :
           i \in {1, 2} }
  \cup { [kind |-> "PUTTAG", id |-> 0, tag |-> <<"a">>,
           body |-> [label |-> <<"C">>]] }

\* the books array a handler holds after its changes, made from the array
\* it read: books.push(newBook), books[idx] = {...}, books.splice(idx, 1),
\* book.tags[tagIdx] = newLabel
ChangedBooks(req, books, oldLabel) ==
  LET Has(b) == b.id = req.id
      idx == FindIndex(books, Has)
  IN CASE req.kind = "POST" ->
            Append(books, Spread([id |-> MaxBookId(books) + 1], req.body))
       [] req.kind = "PUT" ->
            IF idx = 0 THEN books
            ELSE [books EXCEPT ![idx] = Merged(books[idx], req.body, req.id)]
       [] req.kind = "DELETE" ->
            IF idx = 0 THEN books ELSE Without(books, idx)
       [] req.kind = "PUTTAG" ->
            [i \in 1..Len(books) |->
               RenameIn(books[i], oldLabel, Trim(req.body.label))]

\* the response of a books request that found its book
BookResponse(req, books) ==
  LET Has(b) == b.id = req.id
      idx == FindIndex(books, Has)
      after == ChangedBooks(req, books, NoText)
  IN CASE req.kind = "POST" -> Json(201, after[Len(after)])
       [] req.kind = "PUT" -> Json(200, after[idx])
       [] req.kind = "DELETE" -> Json(200, books[idx])

\* a books request is accepted and its handler reads books.json:
\* const books = await readBooks()
read_books(h, req) ==
  LET Has(b) == b.id = req.id
      idx == FindIndex(booksStore, Has)
  IN /\ phase = "serving"
     /\ handlers[h] = Waiting
     /\ req.kind \in {"POST", "PUT", "DELETE"}
     /\ req.kind = "POST" =>
          Len(booksStore) < MaxBooks /\ MaxBookId(booksStore) < MaxId
     /\ IF req.kind # "POST" /\ idx = 0
        THEN /\ lastResponse' = NotFound
             /\ written' = {}
             /\ UNCHANGED handlers
        ELSE /\ handlers' =
                  [handlers EXCEPT
                     ![h] = [at |-> "writeBooks", req |-> req,
                             books |-> booksStore, config |-> configStore,
                             oldLabel |-> NoText]]
             /\ UNCHANGED <<lastResponse, written>>
     /\ UNCHANGED <<booksStore, configStore, phase, startupStatus, syncVars,
                    browserVars, runnerVars>>

\* PUT /api/tags/:id is accepted and its handler reads config.json:
\* const config = await readConfig(); the tag is replaced in the copy
read_config(h, req) ==
  LET Has(t) == t.id = req.tag
      idx == FindIndex(configStore.tags, Has)
      newLabel == Trim(req.body.label)
      oldLabel == configStore.tags[idx].label
  IN /\ phase = "serving"
     /\ handlers[h] = Waiting
     /\ req.kind = "PUTTAG"
     /\ IF idx = 0
        THEN /\ lastResponse' = NotFound
             /\ written' = {}
             /\ UNCHANGED handlers
        ELSE /\ handlers' =
                  [handlers EXCEPT
                     ![h] = [at |-> IF Cascades(oldLabel, newLabel)
                                    THEN "readBooks" ELSE "writeConfig",
                             req |-> req, books |-> << >>,
                             config |-> [configStore EXCEPT
                                           !.tags[idx].label = newLabel],
                             oldLabel |-> oldLabel]]
             /\ UNCHANGED <<lastResponse, written>>
     /\ UNCHANGED <<booksStore, configStore, phase, startupStatus, syncVars,
                    browserVars, runnerVars>>

\* the cascade reads books.json: const books = await readBooks()
cascade_read_books(h) ==
  /\ handlers[h].at = "readBooks"
  /\ handlers' = [handlers EXCEPT ![h].at = "writeBooks",
                                  ![h].books = booksStore]
  /\ UNCHANGED <<booksStore, configStore, lastResponse, written, phase,
                 startupStatus, syncVars, browserVars, runnerVars>>

\* await writeBooks(books): the array the handler holds replaces the file;
\* a books request is answered, the cascade goes on to writeConfig
write_books(h) ==
  LET hd == handlers[h]
  IN /\ hd.at = "writeBooks"
     /\ booksStore' = ChangedBooks(hd.req, hd.books, hd.oldLabel)
     /\ written' = {BOOKS}
     /\ IF hd.req.kind = "PUTTAG"
        THEN /\ handlers' = [handlers EXCEPT ![h].at = "writeConfig"]
             /\ UNCHANGED lastResponse
        ELSE /\ handlers' = [handlers EXCEPT ![h] = Waiting]
             /\ lastResponse' = BookResponse(hd.req, hd.books)
     /\ UNCHANGED <<configStore, phase, startupStatus, syncVars, browserVars, runnerVars>>

\* await writeConfig(config), then the response of PUT /api/tags/:id
write_config(h) ==
  LET hd == handlers[h]
      Has(t) == t.id = hd.req.tag
      idx == FindIndex(hd.config.tags, Has)
  IN /\ hd.at = "writeConfig"
     /\ configStore' = hd.config
     /\ written' = {CONFIG}
     /\ handlers' = [handlers EXCEPT ![h] = Waiting]
     /\ lastResponse' =
          Json(200, [tag |-> hd.config.tags[idx],
                     affectedBooks |-> CountCarrying(hd.books, hd.oldLabel)])
     /\ UNCHANGED <<booksStore, phase, startupStatus, syncVars, browserVars, runnerVars>>

\* ---------------------------------------------------------------- specifications
CleanTree == [f \in Files |-> Clean]

InitRepo ==
  /\ commits = << [parents |-> {}, files |-> TrackedFiles] >>
  /\ remote = 1
  /\ head = [k \in Checkouts |-> 1]
  /\ tracking = [k \in Checkouts |-> 1]

\* one editor instance, calls made one after the other, the remote shared
\* with other clients
Init ==
  /\ InitRepo
  /\ fstate = [k \in Checkouts |-> CleanTree]
  /\ ckOf = [t \in Tasks |-> 1]
  /\ upstream = [k \in Checkouts |-> TRUE]
  /\ pc = [t \in Tasks |-> "idle"]
  /\ op = [t \in Tasks |-> "none"]
  /\ reqBody = [t \in Tasks |-> NoBody]
  /\ message = [t \in Tasks |-> NoText]
  /\ changedFiles = [t \in Tasks |-> << >>]
  /\ cmdResult = [t \in Tasks |-> NoOutcome]
  /\ result = [t \in Tasks |-> NoResult]
  /\ log = [t \in Tasks |-> << >>]
  /\ made = [t \in Tasks |-> 0]
  /\ InitServing
  /\ InitStore
  /\ InitPage
  /\ InitRunner

\* the process from its launch: the startup pull, then the server
InitStartup ==
  /\ InitRepo
  /\ fstate = [k \in Checkouts |-> CleanTree]
  /\ ckOf = [t \in Tasks |-> 1]
  /\ upstream = [k \in Checkouts |-> TRUE]
  /\ pc = [t \in Tasks |-> "idle"]
  /\ op = [t \in Tasks |-> "none"]
  /\ reqBody = [t \in Tasks |-> NoBody]
  /\ message = [t \in Tasks |-> NoText]
  /\ changedFiles = [t \in Tasks |-> << >>]
  /\ cmdResult = [t \in Tasks |-> NoOutcome]
  /\ result = [t \in Tasks |-> NoResult]
  /\ log = [t \in Tasks |-> << >>]
  /\ made = [t \in Tasks |-> 0]
  /\ InitBoot
  /\ InitStore
  /\ InitPage
  /\ InitRunner

Step(t) ==
  \/ pull_fetch(t)
  \/ pull_pull(t)
  \/ push_add(t)
  \/ push_commit(t)
  \/ push_push(t)
  \/ push_revparse(t)

Next ==
  \/ StartPull(1)
  \/ StartPush(1, NoBody)
  \/ Step(1)
  \/ \E f \in dataFiles : WriteData(1, f)
  \/ OperatorChange(1)
  \/ ExternalPush

Spec == Init /\ [][Next]_vars

\* two push() calls in flight at once: two requests of one instance (one
\* checkout) or two instances (two checkouts) that saw the same remote tip
RaceTrees ==
  { tr \in [Files -> FileStates] :
      /\ \A f \in dataFiles : tr[f] \in {Clean, " M", "M ", "MM"}
      /\ tr[JunkFile] \in {Clean, "??"}
      /\ tr[OtherFile] \in {Clean, " M", "M "} }

InitRace ==
  /\ InitRepo
  /\ ckOf \in {[t \in Tasks |-> 1], [t \in Tasks |-> t]}
  /\ fstate \in [Checkouts -> RaceTrees]
  /\ \A k \in Checkouts : (\A t \in Tasks : ckOf[t] # k) => fstate[k] = CleanTree
  /\ upstream = [k \in Checkouts |-> TRUE]
  /\ pc = [t \in Tasks |-> "add"]
  /\ op = [t \in Tasks |-> "push"]
  /\ reqBody = [t \in Tasks |-> NoBody]
  /\ message = [t \in Tasks |-> DEFAULT_MESSAGE]
  /\ changedFiles = [t \in Tasks |-> << >>]
  /\ cmdResult = [t \in Tasks |-> NoOutcome]
  /\ result = [t \in Tasks |-> NoResult]
  /\ log = [t \in Tasks |-> << >>]
  /\ made = [t \in Tasks |-> 0]
  /\ InitServing
  /\ InitStore
  /\ InitPage
  /\ InitRunner

NextRace ==
  \/ \E t \in Tasks : push_add(t)
  \/ \E t \in Tasks : push_commit(t)
  \/ \E t \in Tasks : push_push(t)
  \/ \E t \in Tasks : push_revparse(t)
  \/ \E k \in Checkouts, f \in dataFiles :
       (\E t \in Tasks : ckOf[t] = k) /\ WriteData(k, f)

SpecRace == InitRace /\ [][NextRace]_vars

\* the checkout as status() may find it: each data file in any state, the
\* branch with or without an upstream
StatusTrees ==
  { tr \in [Files -> FileStates] :
      tr[OtherFile] = Clean /\ tr[JunkFile] = Clean }

InitAnyTree ==
  /\ InitRepo
  /\ ckOf = [t \in Tasks |-> 1]
  /\ fstate \in [Checkouts -> StatusTrees]
  /\ fstate[2] = CleanTree
  /\ pc = [t \in Tasks |-> "idle"]
  /\ op = [t \in Tasks |-> "none"]
  /\ reqBody = [t \in Tasks |-> NoBody]
  /\ message = [t \in Tasks |-> NoText]
  /\ changedFiles = [t \in Tasks |-> << >>]
  /\ cmdResult = [t \in Tasks |-> NoOutcome]
  /\ result = [t \in Tasks |-> NoResult]
  /\ log = [t \in Tasks |-> << >>]
  /\ made = [t \in Tasks |-> 0]
  /\ InitServing
  /\ InitStore
  /\ InitPage
  /\ InitRunner

InitStatus ==
  /\ InitAnyTree
  /\ upstream \in {[k \in Checkouts |-> b] : b \in BOOLEAN}

\* GET /api/sync/status between the other sync requests of one instance
NextStatus ==
  \/ StartStatus(1)
  \/ status_porcelain(1)
  \/ status_revlist(1)
  \/ StartPull(1)
  \/ StartPush(1, NoBody)
  \/ Step(1)
  \/ ExternalPush

SpecStatus == InitStatus /\ [][NextStatus]_vars

\* pull() or push() requested by the page, then GET /api/sync/status as
\* the next request of the same instance: the sync call is task 1, the
\* status call task 2, one at a time
NextThenStatus ==
  \/ pc[2] = "idle" /\ StartPull(1)
  \/ pc[2] = "idle" /\ StartPush(1, NoBody)
  \/ Step(1)
  \/ Finished(1) /\ StartStatus(2)
  \/ status_porcelain(2)
  \/ status_revlist(2)
  \/ ExternalPush

\* the data files clean, edited or staged; the branch with or without an
\* upstream
InitThenStatus ==
  /\ InitStatus
  /\ \A f \in dataFiles : fstate[1][f] \in {Clean, " M", "M "}

SpecThenStatus == InitThenStatus /\ [][NextThenStatus]_vars

InitPublish ==
  /\ InitAnyTree
  /\ upstream = [k \in Checkouts |-> TRUE]

\* POST /api/sync/push with any body, then GET /api/sync/status, with no
\* write to the data files in between
NextPublish ==
  \/ \E body \in Bodies : StartPush(1, body)
  \/ push_add(1)
  \/ push_commit(1)
  \/ push_push(1)
  \/ push_revparse(1)
  \/ /\ op[1] = "push"
     /\ "success" \in DOMAIN result[1] /\ result[1].success
     /\ StartStatus(1)
  \/ status_porcelain(1)
  \/ status_revlist(1)

SpecPublish == InitPublish /\ [][NextPublish]_vars

\* the startup sequence of server.ts, then the requests the server accepts;
\* other clients push to the remote at any time
StartupStep ==
  \/ startup_pull
  \/ pull_fetch(1)
  \/ pull_pull(1)
  \/ startup_continue

NextStartup ==
  \/ StartupStep
  \/ GetStatus
  \/ PostSyncPull
  \/ ExternalPush

\* every git command ends, and the module body runs on to Bun.serve
SpecStartup == InitStartup /\ [][NextStartup]_vars /\ WF_vars(StartupStep)

\* a launch, then the status and sync requests of the page, the data files
\* being rewritten by the store requests in between
NextServing ==
  \/ StartupStep
  \/ GetStatus
  \/ PostSyncPull
  \/ PostSyncPush
  \/ push_add(1)
  \/ push_commit(1)
  \/ push_push(1)
  \/ push_revparse(1)
  \/ \E f \in dataFiles : phase = "serving" /\ WriteData(1, f)
  \/ ExternalPush

SpecServing == InitStartup /\ [][NextServing]_vars

\* the /api/books requests of one instance, one after the other
NextBooks ==
  \/ \E body \in NewBookBodies : PostBook(body)
  \/ \E id \in BookIds, update \in BookUpdates : PutBook(id, update)
  \/ \E id \in BookIds : DeleteBook(id)

SpecBooks == Init /\ [][NextBooks]_vars

\* the two helpers, run on every process result
NextRunner ==
  \/ \E args \in RunnerArgs, o \in ProcessResults : gitSafe(args, o)
  \/ \E args \in RunnerArgs, o \in ProcessResults : git(args, o)

SpecRunner == Init /\ [][NextRunner]_vars

\* store requests handled at the same time by one instance
NextOverlap ==
  \/ \E h \in Handlers, req \in OverlapRequests : read_books(h, req)
  \/ \E h \in Handlers, req \in OverlapRequests : read_config(h, req)
  \/ \E h \in Handlers : cascade_read_books(h)
  \/ \E h \in Handlers : write_books(h)
  \/ \E h \in Handlers : write_config(h)

SpecOverlap == Init /\ [][NextOverlap]_vars

\* the requests of the running _handlePush() get an answer or an error
PushSettles ==
  \/ \E outcome \in {"success", "failure", "error"} : push_settles(outcome)
  \/ \E answer \in StatusAnswers \cup {FetchFails} : push_refreshed(answer)

\* the request of a refresh() called by a timer gets an answer or an error
PollSettles ==
  \E answer \in StatusAnswers \cup {FetchFails} : poll_settles(answer)

\* the events of the sync widget
NextWidget ==
  \/ click
  \/ poll
  \/ PushSettles
  \/ PollSettles

\* every fetch ends: the server answers, or the browser reports an error
SpecWidget ==
  Init /\ [][NextWidget]_vars /\ WF_vars(PushSettles) /\ WF_vars(PollSettles)

\* the calls the page makes on its store, and the callbacks the store makes
NextPage ==
  \/ \E books \in LoadedBooks : setBooks(books)
  \/ \E config \in PageConfigs : setConfig(config)
  \/ \E book \in PageBooks : upsertBook(book)
  \/ \E id \in {1, 2} : removeBook(id)
  \/ \E book \in PageBooks, atIndex \in 0..MaxBooks : restoreBook(book, atIndex)
  \/ \E fn \in Callbacks : onChange(fn)
  \/ \E fn \in Callbacks : unsubscribe(fn)
  \/ notify_call

SpecPage == Init /\ [][NextPage]_vars

\* the /api/config requests of one instance, one after the other
NextConfig ==
  \E method \in Methods, body \in ConfigBodies : handleConfig(method, body)

SpecConfig == Init /\ [][NextConfig]_vars

\* the /api/tags requests of one instance, one after the other, between
\* requests that set the tags of a book or delete a book
NextTags ==
  \/ \E body \in TagBodies : PostTag(body)
  \/ \E id \in TagIds, body \in TagBodies : PutTag(id, body)
  \/ \E id \in TagIds : DeleteTag(id)
  \/ \E id \in BookIds, update \in TagEdits : PutBook(id, update)
  \/ \E id \in BookIds : DeleteBook(id)

SpecTags == Init /\ [][NextTags]_vars

\* ---------------------------------------------------------------- claims
\* task t's step at the given await is being taken
StepAt(t, at) == pc[t] = at /\ pc'[t] # at

PUSH_FAILED == <<"push", "failed", ":">>
COMMIT_FAILED == <<"commit", "failed", ":">>

IsPrefix(s, full) == Len(s) <= Len(full) /\ s = SubSeq(full, 1, Len(s))

\* C1: every push performed by push() leaves the remote branch tip equal to
\* or a descendant of the tip the remote branch had just before the push.
C1_PushKeepsRemoteWork ==
  [][\A t \in Tasks :
       StepAt(t, "push") => IsAncestorOrEq(remote, remote')]_vars

BothReturned == \A t \in Tasks : pc[t] = "idle" /\ op[t] = "push"

RanPush(t) == \E i \in 1..Len(log[t]) : log[t][i] = "push"

\* the call resolved with a result object whose success field is b
ReturnedSuccess(t, b) == "success" \in DOMAIN result[t] /\ result[t].success = b

\* C3 as stated: of two racing push() calls (one checkout or two) at most one
\* returns success:true; the other returns success:false, and if it reached
\* its push step the error reports the failed push.
C3_AtMostOneWins ==
  BothReturned =>
    \E l \in Tasks :
      /\ ReturnedSuccess(l, FALSE)
      /\ RanPush(l) => Includes(result[l].error, PUSH_FAILED)

\* C3 amended: when the two calls run in two different checkouts that saw
\* the same remote tip and each call's commit step created a commit, at most
\* one returns success:true and the other returns success:false with the
\* error of the failed push.
C3_AtMostOneWinsAcrossCheckouts ==
  (BothReturned /\ ckOf[1] # ckOf[2] /\ made[1] # 0 /\ made[2] # 0) =>
    \E l \in Tasks :
      /\ ReturnedSuccess(l, FALSE)
      /\ Includes(result[l].error, PUSH_FAILED)

\* two instances both committed; one push won, the other lost its lease
C3_Witness ==
  /\ BothReturned /\ ckOf[1] # ckOf[2] /\ made[1] # 0 /\ made[2] # 0
  /\ \E w, l \in Tasks :
       /\ ReturnedSuccess(w, TRUE)
       /\ ReturnedSuccess(l, FALSE)
       /\ cmdResult[l].stderr = TxtStale

\* ---- C4
\* C4: after two racing push() calls have returned, every commit made by the
\* commit step of either call is reachable from the local branch of the
\* checkout that made it or from the remote branch.
C4_NoCommitLost ==
  BothReturned =>
    \A t \in Tasks :
      made[t] # 0 =>
        made[t] \in Ancestors(head[ckOf[t]]) \cup Ancestors(remote)

\* both calls committed in one checkout and the second lost its push
C4_Witness ==
  /\ BothReturned /\ made[1] # 0 /\ made[2] # 0 /\ made[1] # made[2]
  /\ \E l \in Tasks : ReturnedSuccess(l, FALSE) /\ RanPush(l)

\* ---- C5
\* C5: a pull() that returns success:true created no commit; the local tip
\* is then equal to or a descendant of the remote-tracking tip, and every
\* commit on the local branch was on it before or was on the remote.
C5_PullNeverMerges ==
  [][\A t \in Tasks :
       (StepAt(t, "pull") /\ result'[t].success)
       => /\ commits' = commits
          /\ IsAncestorOrEq(tracking'[ckOf[t]], head'[ckOf[t]])
          /\ Ancestors(head'[ckOf[t]])
               \subseteq Ancestors(head[ckOf[t]]) \cup Ancestors(remote)]_vars

\* a pull() fast-forwarded the local branch to a fetched commit
C5_Witness ==
  \E t \in Tasks :
    /\ op[t] = "pull" /\ pc[t] = "idle" /\ result[t] = [success |-> TRUE]
    /\ cmdResult[t].stdout = <<"Updating", "Fast-forward">>
    /\ head[ckOf[t]] = tracking[ckOf[t]] /\ head[ckOf[t]] # 1

\* ---- C6
PullReturned(t) == op[t] = "pull" /\ pc[t] = "idle"

\* stderr, or stdout when stderr is empty
StderrOrStdout(r) == IF Len(r.stderr) > 0 THEN r.stderr ELSE r.stdout

\* the result pull() must return when its failures carry the given prefixes
PullResultWith(t, fetchPrefix, pullPrefix) ==
  IF log[t] = <<"fetch">>
  THEN [success |-> FALSE,
        error |-> fetchPrefix \o StderrOrStdout(cmdResult[t])]
  ELSE IF ~cmdResult[t].ok
  THEN [success |-> FALSE,
        error |-> pullPrefix \o StderrOrStdout(cmdResult[t])]
  ELSE [success |-> TRUE]

\* C6 as stated: a failed fetch gives error "fetch failed: " + (stderr or
\* stdout), a failed fast-forward step gives "fast-forward pull failed: " +
\* (stderr or stdout), otherwise the result is {success:true}.
C6_DocumentedErrorText ==
  \A t \in Tasks :
    PullReturned(t) =>
      result[t] = PullResultWith(t, <<"fetch", "failed", ":">>,
                                 <<"fast-forward", "pull", "failed", ":">>)

\* C6 amended: a failed fetch gives error "git fetch failed: " + (stderr or
\* stdout), a failed fast-forward step gives "git pull --ff-only failed: " +
\* (stderr or stdout), otherwise the result is {success:true}.
C6_ActualErrorText ==
  \A t \in Tasks :
    PullReturned(t) =>
      result[t] = PullResultWith(t, <<"git", "fetch", "failed", ":">>,
                                 <<"git", "pull", "--ff-only", "failed", ":">>)

\* a pull() failed at its fast-forward step with text on both streams
C6_Witness ==
  \E t \in Tasks :
    /\ PullReturned(t) /\ log[t] = <<"fetch", "pull">>
    /\ cmdResult[t].stderr = TxtOverwritten
    /\ cmdResult[t].stdout = TxtUpdating
    /\ result[t].success = FALSE

\* ---- C7
\* C7: while the local branch and the remote branch have diverged, no step of
\* pull() changes the working tree, the index or the local branch tip, and
\* the call returns success:false.
C7_DivergedPullLeavesCheckout ==
  [][\A t \in Tasks :
       ((StepAt(t, "fetch") \/ StepAt(t, "pull"))
          /\ Diverged(head[ckOf[t]], remote))
       => /\ head' = head
          /\ fstate' = fstate
          /\ commits' = commits
          /\ pc'[t] = "idle" => result'[t].success = FALSE]_vars

\* a pull() was refused because the histories diverged
C7_Witness ==
  \E t \in Tasks :
    /\ PullReturned(t) /\ cmdResult[t].stderr = TxtNotFF
    /\ Diverged(head[ckOf[t]], remote)
    /\ result[t].success = FALSE

\* ---- C8
\* C8: a pull() call issues fetch and then pull --ff-only, in that order and
\* nothing else, and a failed fetch ends the call with the fetch alone issued.
C8_PullOrder ==
  [][\A t \in Tasks :
       /\ op'[t] = "pull" => IsPrefix(log'[t], <<"fetch", "pull">>)
       /\ (StepAt(t, "fetch") /\ ~cmdResult'[t].ok)
          => pc'[t] = "idle" /\ log'[t] = <<"fetch">>]_vars

\* a pull() returned after a failed fetch
C8_Witness ==
  \E t \in Tasks :
    /\ PullReturned(t) /\ log[t] = <<"fetch">>
    /\ ~cmdResult[t].ok /\ result[t].success = FALSE

C10_NothingToCommitContinues ==
  [][\A t \in Tasks :
       (StepAt(t, "commit")
          /\ \A f \in dataFiles : fstate[ckOf[t]][f] = Clean
          /\ cmdResult'[t].stderr # TxtFatalCommit)
       => pc'[t] = "push" /\ result'[t] = NoResult]_vars

\* ---- C11
\* status() returned a SyncStatus to task t
StatusReturned(t) ==
  op[t] = "status" /\ pc[t] = "idle" /\ "dirty" \in DOMAIN result[t]

\* C11: whatever state the two data files were in, a status() that follows a
\* publish that returned success:true, with no write to the data files in
\* between, returns dirty = false and an empty changedFiles.
C11_PublishThenStatusClean ==
  \A t \in Tasks :
    StatusReturned(t) =>
      result[t].dirty = FALSE /\ result[t].changedFiles = << >>

\* status() came back clean after a publish that committed the deletion of
\* one data file and a change of the other, and pushed them
C11_Witness ==
  /\ StatusReturned(1) /\ result[1].dirty = FALSE
  /\ head[1] # 1 /\ remote = head[1]
  /\ fstate[1][BOOKS] = Absent /\ fstate[1][CONFIG] = Clean
  /\ commits[head[1]].files = dataFiles

\* ---- C12
\* C12: every commit created by the commit step of publish() changes the two
\* data files only, whatever else is modified or staged in the checkout.
C12_CommitsOnlyDataFiles ==
  [][\A t \in Tasks :
       (StepAt(t, "commit") /\ made'[t] # 0)
       => commits'[made'[t]].files \subseteq dataFiles]_vars

\* ---- C13
\* C13: every SyncStatus returned by status() has
\* dirty = (changedFiles.length > 0).
C13_DirtyIffChangedFiles ==
  \A t \in Tasks :
    StatusReturned(t) =>
      (result[t].dirty <=> Len(result[t].changedFiles) > 0)

\* status() returned dirty with exactly one changed file
C13_Witness ==
  \E t \in Tasks :
    /\ StatusReturned(t)
    /\ result[t].dirty /\ Len(result[t].changedFiles) = 1

\* ---- C14
\* the paths of the data files with uncommitted changes in checkout k
UncommittedPaths(k) ==
  { PathChars(f) : f \in { g \in dataFiles : ~NoLocalChange(fstate[k][g]) } }

\* C14: changedFiles of a returned SyncStatus holds exactly the
\* repository-relative paths of the data files with uncommitted changes,
\* each path intact.
C14_ChangedFilesAreThePaths ==
  \A t \in Tasks :
    StatusReturned(t) =>
      { result[t].changedFiles[i] : i \in 1..Len(result[t].changedFiles) }
        = UncommittedPaths(ckOf[t])

\* ---- C15
\* the rev-list step of the status() call of task t has run
CountRan(t) ==
  op[t] = "status" /\ pc[t] = "idle" /\ log[t] = <<"status", "rev-list">>

\* C15: when the left-right count fails, status() returns normally, with
\* ahead = 0 and behind = 0, and throws nothing.
C15_FailedCountGivesZero ==
  \A t \in Tasks :
    (CountRan(t) /\ ~cmdResult[t].ok) =>
      /\ "thrown" \notin DOMAIN result[t]
      /\ StatusReturned(t)
      /\ result[t].ahead = 0 /\ result[t].behind = 0

\* status() returned from a branch without upstream
C15_Witness ==
  \E t \in Tasks :
    /\ CountRan(t) /\ ~upstream[ckOf[t]]
    /\ cmdResult[t].stderr = TxtNoUpstream
    /\ StatusReturned(t) /\ result[t].ahead = 0

\* ---- C16
\* C16: when the count succeeds, ahead is the number of commits reachable
\* from the local tip and not from the remote-tracking tip, and behind the
\* number reachable from the remote-tracking tip and not from the local tip.
C16_AheadBehindCounts ==
  \A t \in Tasks :
    (CountRan(t) /\ cmdResult[t].ok) =>
      /\ result[t].ahead =
           Cardinality(Ancestors(head[ckOf[t]])
                         \ Ancestors(tracking[ckOf[t]]))
      /\ result[t].behind =
           Cardinality(Ancestors(tracking[ckOf[t]])
                         \ Ancestors(head[ckOf[t]]))

\* two fetched remote commits and no local one: behind = 2, ahead = 0
C16_Witness ==
  \E t \in Tasks :
    /\ CountRan(t) /\ cmdResult[t].ok
    /\ head[ckOf[t]] = 1 /\ tracking[ckOf[t]] = 3
    /\ result[t].behind = 2 /\ result[t].ahead = 0

\* ---- C17
\* C17: no step of status() issues a command other than git status and git
\* rev-list, and none changes the working tree and index, the local branch,
\* the remote-tracking refs, the remote or the commit graph.
C17_StatusReadsOnly ==
  [][\A t \in Tasks :
       (op'[t] = "status" /\ (op[t] # "status" \/ pc'[t] # pc[t]))
       => /\ UNCHANGED <<commits, remote, head, tracking, fstate, upstream>>
          /\ IsPrefix(log'[t], <<"status", "rev-list">>)]_vars

\* status() returned behind = 0 while the remote holds a commit that was
\* never fetched
C17_Witness ==
  \E t \in Tasks :
    /\ CountRan(t) /\ cmdResult[t].ok
    /\ remote # tracking[ckOf[t]]
    /\ tracking[ckOf[t]] = head[ckOf[t]]
    /\ result[t].behind = 0

\* ---- C18
\* C18: a failed staging step ends publish() with a thrown GitError and not
\* with a PushResult, before any commit or push is run, and the request is
\* answered 500; so is a failed read-back of the commit hash.  git add fails
\* whenever one of the two data files is neither in the index nor on disk.
C18_StagingFailureThrows ==
  [][\A t \in Tasks :
       /\ (StepAt(t, "add") /\ pc'[t] # "commit")
          => /\ Thrown(t)' /\ "success" \notin DOMAIN result'[t]
             /\ result'[t].name = "GitError" /\ result'[t].args = "add"
             /\ result'[t].exitCode # 0
             /\ log'[t] = <<"add">>
             /\ UNCHANGED <<commits, remote, head, tracking, fstate>>
             /\ handleSync(t)'.status = 500
       /\ (StepAt(t, "add")
             /\ \E f \in dataFiles : NoSuchPath(fstate[ckOf[t]][f]))
          => pc'[t] = "idle"
       /\ (StepAt(t, "rev-parse") /\ "sha" \notin DOMAIN result'[t])
          => /\ Thrown(t)' /\ "success" \notin DOMAIN result'[t]
             /\ result'[t].args = "rev-parse"
             /\ handleSync(t)'.status = 500]_vars

\* publish() threw at its staging step because a data file is missing, and
\* the request was answered 500
C18_Witness ==
  \E t \in Tasks :
    /\ Thrown(t) /\ op[t] = "push" /\ log[t] = <<"add">>
    /\ result[t].stderr = TxtPathspec
    /\ handleSync(t).status = 500

\* ---- C19
\* the last git command the call of task t issued
LastCommand(t) == log[t][Len(log[t])]

\* C19: a finished pull or push request that has a result is answered 200
\* when result.success and 409 otherwise, with the result as body; a call
\* that ended at its fetch, pull, commit or push step has a result and did
\* not throw.
C19_StatusCodeFollowsSuccess ==
  \A t \in Tasks :
    (Finished(t) /\ op[t] \in {"pull", "push"}) =>
      /\ LastCommand(t) \in {"fetch", "pull", "commit", "push"}
         => ~Thrown(t) /\ "success" \in DOMAIN result[t]
      /\ "success" \in DOMAIN result[t]
         => /\ handleSync(t).body = result[t]
            /\ result[t].success => handleSync(t).status = 200
            /\ ~result[t].success
               => handleSync(t).status = 409 /\ "error" \in DOMAIN result[t]

\* a push request was answered 409 after its push was rejected
C19_Witness ==
  \E t \in Tasks :
    /\ Finished(t) /\ op[t] = "push" /\ LastCommand(t) = "push"
    /\ ~cmdResult[t].ok
    /\ handleSync(t).status = 409 /\ handleSync(t).body = result[t]

\* ---- C20
IsBlank(m) == \A i \in 1..Len(m) : m[i] \in Whitespace

\* m is what is left of full when the whitespace at both ends is removed
IsTrimmedFrom(m, full) ==
  /\ m # NoText /\ m[1] \notin Whitespace /\ m[Len(m)] \notin Whitespace
  /\ \E i \in 1..Len(full) :
       /\ i + Len(m) - 1 <= Len(full)
       /\ SubSeq(full, i, i + Len(m) - 1) = m
       /\ IsBlank(SubSeq(full, 1, i - 1))
       /\ IsBlank(SubSeq(full, i + Len(m), Len(full)))

\* C20: whatever the body of POST /api/sync/push, publish() is called, with
\* a non-empty message: the default "Update catalogue" when the message is
\* absent, empty or whitespace only, the trimmed message otherwise.
C20_MessageNeverEmpty ==
  \A t \in Tasks :
    op[t] = "push" =>
      /\ message[t] # NoText
      /\ pc[t] = "add" \/ log[t] # << >>
      /\ IF ~reqBody[t].has \/ IsBlank(reqBody[t].message)
         THEN message[t] = DEFAULT_MESSAGE
         ELSE IsTrimmedFrom(message[t], reqBody[t].message)

\* a request with a whitespace-only message was published with the default
\* message
C20_Witness ==
  \E t \in Tasks :
    /\ op[t] = "push" /\ pc[t] = "idle" /\ ReturnedSuccess(t, TRUE)
    /\ reqBody[t].has /\ Len(reqBody[t].message) > 1
    /\ IsBlank(reqBody[t].message)
    /\ message[t] = DEFAULT_MESSAGE

\* ---------------------------------------------------------------- C21
\* the fields a returned result carries
Present(t, f) == f \in DOMAIN result[t]

\* C21: every result that pull() or publish() returns, whatever the commands
\* did, has the documented shape: a PullResult carries error exactly when
\* success is false (and never a sha); a PushResult carries sha exactly when
\* success is true and error exactly when success is false.
C21_ResultShapes ==
  \A t \in Tasks :
    (pc[t] = "idle" /\ op[t] \in {"pull", "push"} /\ Present(t, "success")) =>
      /\ Present(t, "error") <=> ~result[t].success
      /\ IF op[t] = "push"
         THEN Present(t, "sha") <=> result[t].success
         ELSE ~Present(t, "sha")

\* a publish whose commit was made and whose push was rejected returned
\* success:false with the error text of the push and no sha
C21_Witness ==
  \E t \in Tasks :
    /\ op[t] = "push" /\ pc[t] = "idle" /\ ReturnedSuccess(t, FALSE)
    /\ made[t] # 0
    /\ Present(t, "error") /\ ~Present(t, "sha")
    /\ SubSeq(result[t].error, 1, 3) = <<"git", "push", "failed">>

\* ---------------------------------------------------------------- C22
\* the module body has reached Bun.serve
Serving == phase = "serving"

\* what the steps of a launch may do
StartupOrder ==
  \* a call of pull() starts either as the one step that leaves "boot", or
  \* for a request of the running server
  /\ (pc[1] = "idle" /\ pc'[1] # "idle") =>
       \/ phase = "boot" /\ phase' = "pulling"
       \/ Serving /\ phase' = "serving"
  /\ phase # "boot" => phase' # "boot"
  \* the server comes up only when that pull has returned, and its result
  \* is then the recorded one
  /\ (~Serving /\ phase' = "serving") =>
       /\ phase = "pulling" /\ op[1] = "pull" /\ pc[1] = "idle"
       /\ "success" \in DOMAIN result[1]
       /\ DOMAIN startupStatus' = DOMAIN result[1] \cup {"checked"}
       /\ startupStatus'.checked
       /\ \A f \in DOMAIN result[1] : startupStatus'[f] = result[1][f]
  \* once up, the server stays up and the record is only read
  /\ Serving => phase' = "serving" /\ startupStatus' = startupStatus
  \* only the running server answers requests
  /\ lastResponse' # lastResponse => Serving

\* C22: at startup pull() is called exactly once and has returned before the
\* server accepts a request; its result is what the status endpoint reports
\* from then on; and the server does come up, whether the pull succeeded or
\* failed.
C22_StartupPullThenServe ==
  /\ [](~Serving => startupStatus = NotChecked /\ lastResponse = NoResponse)
  /\ [][StartupOrder]_vars
  /\ <>Serving

\* the server came up after a startup pull that failed, and GET /api/status
\* answered with the recorded failure
C22_Witness ==
  /\ Serving
  /\ startupStatus.checked /\ ~startupStatus.success
  /\ "error" \in DOMAIN startupStatus
  /\ lastResponse = [status |-> 200, body |-> startupStatus]

\* ---------------------------------------------------------------- C23
\* the ids of the stored books
StoredIds(books) == { books[i].id : i \in 1..Len(books) }

\* the largest of a set of ids, 0 for none
Largest(ids) == IF ids = {} THEN 0 ELSE CHOOSE m \in ids : \A i \in ids : i <= m

\* C23: POST /api/books appends one book whose id is the largest stored id
\* plus one (1 for an empty store), an id no stored book has; the answer is
\* 201 with that book, and the books stored before are unchanged.
C23_PostAssignsNextId ==
  [][\A body \in NewBookBodies :
       PostBook(body) =>
         LET n == Len(booksStore)
             created == booksStore'[n + 1]
         IN /\ Len(booksStore') = n + 1
            /\ SubSeq(booksStore', 1, n) = booksStore
            /\ created.id = Largest(StoredIds(booksStore)) + 1
            /\ created.id \notin StoredIds(booksStore)
            /\ lastResponse'.status = 201
            /\ lastResponse'.body = created]_vars

\* ---------------------------------------------------------------- C24
\* the place of the first stored book with the id, 0 if there is none
PlaceOf(id) ==
  IF id \in StoredIds(booksStore)
  THEN CHOOSE i \in 1..Len(booksStore) :
         booksStore[i].id = id /\ \A h \in 1..(i - 1) : booksStore[h].id # id
  ELSE 0

\* C24: PUT /api/books/:id on a stored book writes the fields of the body
\* over the book, keeps every field the body does not name, leaves the id
\* equal to the path id even if the body names another id, and changes no
\* other book.
C24_PutMergesKeepsId ==
  [][\A id \in BookIds, update \in BookUpdates :
       (PutBook(id, update) /\ PlaceOf(id) # 0) =>
         LET at == PlaceOf(id)
             old == booksStore[at]
             new == booksStore'[at]
         IN /\ Len(booksStore') = Len(booksStore)
            /\ DOMAIN new = DOMAIN old \cup DOMAIN update
            /\ new.id = id
            /\ \A f \in DOMAIN update \ {"id"} : new[f] = update[f]
            /\ \A f \in DOMAIN old \ DOMAIN update : new[f] = old[f]
            /\ \A j \in 1..Len(booksStore) :
                 j # at => booksStore'[j] = booksStore[j]
            /\ lastResponse' = [status |-> 200, body |-> new]]_vars

\* book 2 was given the title of book 1 by a PUT: it is returned with that
\* title, its own id and the tags it had
C24_Witness ==
  \E i \in 1..Len(booksStore) :
    LET b == booksStore[i]
    IN /\ lastResponse = [status |-> 200, body |-> b]
       /\ b.id = 2 /\ b.titolo = "Guida ai Funghi"
       /\ b.tags = <<<<"A">>>>

\* ---------------------------------------------------------------- C25
\* C25: DELETE /api/books/:id on a stored book removes that book and no
\* other, answers 200 with the removed book, and leaves the other books in
\* the order they had.
C25_DeleteRemovesOne ==
  [][\A id \in BookIds :
       (DeleteBook(id) /\ PlaceOf(id) # 0) =>
         LET at == PlaceOf(id)
         IN /\ Len(booksStore') = Len(booksStore) - 1
            /\ \A j \in 1..(at - 1) : booksStore'[j] = booksStore[j]
            /\ \A j \in at..Len(booksStore') :
                 booksStore'[j] = booksStore[j + 1]
            /\ lastResponse' = [status |-> 200, body |-> booksStore[at]]]_vars

\* the first of the two seeded books was deleted and returned; the second
\* is what the store holds
C25_Witness ==
  /\ lastResponse = [status |-> 200, body |-> SeedBooks[1]]
  /\ booksStore = <<SeedBooks[2]>>

\* ---------------------------------------------------------------- C26
\* the ids of the stored tags
StoredTagIds == { configStore.tags[i].id : i \in 1..Len(configStore.tags) }

\* the request has no label, or one of whitespace only
NoLabel(body) == "label" \notin DOMAIN body \/ IsBlank(body.label)

StoresUnchanged == booksStore' = booksStore /\ configStore' = configStore

\* the step answered with the status and wrote nothing
Refused(status) == lastResponse'.status = status /\ StoresUnchanged

\* C26: a request that the book and tag handlers refuse leaves the books
\* and the config as they were: 404 for a PUT or DELETE on an id that is not
\* stored, 400 for a tag request without a label or with a blank one, 409
\* for a new tag whose id is taken.
C26_ErrorsChangeNothing ==
  [][/\ lastResponse'.status \in {400, 404, 409} => StoresUnchanged
     /\ \A id \in BookIds \ StoredIds(booksStore) :
          Refused(404)
            \/ ~(DeleteBook(id) \/ \E u \in TagEdits : PutBook(id, u))
     /\ \A body \in { b \in TagBodies : NoLabel(b) } :
          Refused(400)
            \/ ~(PostTag(body) \/ \E id \in TagIds : PutTag(id, body))
     /\ \A id \in TagIds \ StoredTagIds :
          Refused(404)
            \/ ~(DeleteTag(id)
                   \/ \E body \in TagBodies :
                        ~NoLabel(body) /\ PutTag(id, body))
     /\ \A body \in TagBodies :
          lastResponse'.status = 201 \/ Refused(400) \/ Refused(409)
            \/ ~PostTag(body)]_vars

\* a new tag was refused with 409 while the seeded books and config are
\* all that is stored
C26_Witness ==
  /\ lastResponse.status = 409
  /\ booksStore = SeedBooks /\ configStore = SeedConfig

\* ---------------------------------------------------------------- C27
\* the id POST /api/tags gives the tag of a body with a label: the id of
\* the body unless it is missing or blank, else the slug of the label
RequestedTagId(body) ==
  IF "id" \in DOMAIN body /\ ~IsBlank(body.id) THEN Trim(body.id)
  ELSE slugify(Trim(body.label))

DistinctTagIds ==
  \A i, j \in 1..Len(configStore.tags) :
    i # j => configStore.tags[i].id # configStore.tags[j].id

\* what POST and PUT /api/tags do to the ids
TagIdSteps ==
  /\ \A body \in { b \in TagBodies : ~NoLabel(b) } :
       \/ IF RequestedTagId(body) \in StoredTagIds
          THEN Refused(409)
          ELSE /\ lastResponse'.status = 201
               /\ Len(configStore'.tags) = Len(configStore.tags) + 1
               /\ SubSeq(configStore'.tags, 1, Len(configStore.tags))
                    = configStore.tags
               /\ configStore'.tags[Len(configStore'.tags)].id
                    = RequestedTagId(body)
       \/ ~PostTag(body)
  /\ \/ /\ Len(configStore'.tags) = Len(configStore.tags)
        /\ \A i \in 1..Len(configStore.tags) :
             configStore'.tags[i].id = configStore.tags[i].id
     \/ ~\E id \in TagIds, body \in TagBodies : PutTag(id, body)

\* C27: whatever POST, PUT and DELETE /api/tags requests have been handled,
\* no two tags of the config have the same id: POST stores a tag, with 201,
\* only if no stored tag has its id and answers 409 if one has, and PUT
\* leaves the id of every tag as it is.
C27_TagIdsDistinct ==
  /\ []DistinctTagIds
  /\ [][TagIdSteps]_vars

\* after tag a was deleted, a POST that names the id a was accepted: the
\* config holds tag b and the new tag a, labelled B
C27_Witness ==
  /\ lastResponse.status = 201
  /\ lastResponse.body.id = <<"a">> /\ lastResponse.body.label = <<"B">>
  /\ Len(configStore.tags) = 2
  /\ configStore.tags[2] = lastResponse.body
  /\ configStore.tags[1].id = <<"b">>

\* ---------------------------------------------------------------- C28
\* the book has the label among its tags
Carries(book, label) == \E k \in 1..Len(book.tags) : book.tags[k] = label

\* the stored tag with the id
TagWithId(config, id) ==
  config.tags[CHOOSE i \in 1..Len(config.tags) : config.tags[i].id = id]

\* the books, after the step, as a rename of old to new leaves them: the
\* carriers carry new, nobody carries old, every other tag is in its place
Renamed(old, new) ==
  /\ Len(booksStore') = Len(booksStore)
  /\ \A i \in 1..Len(booksStore) :
       LET before == booksStore[i]
           after == booksStore'[i]
       IN /\ Carries(before, old) => Carries(after, new)
          /\ ~Carries(after, old)
          /\ Len(after.tags) = Len(before.tags)
          /\ \A k \in 1..Len(before.tags) :
               before.tags[k] # old => after.tags[k] = before.tags[k]
          /\ [after EXCEPT !.tags = before.tags] = before

\* C28: PUT /api/tags/:id with a label other than the one the tag has
\* renames the tag in the config and in the books: every book that carried
\* the old label carries the new one, no book carries the old one, the
\* other tags of the books are unchanged, and affectedBooks is the number
\* of books that carried the old label.
C28_RenameCascades ==
  [][\A id \in StoredTagIds, body \in { b \in TagBodies : ~NoLabel(b) } :
       LET old == TagWithId(configStore, id).label
           new == Trim(body.label)
       IN \/ old = new
          \/ ~PutTag(id, body)
          \/ /\ TagWithId(configStore', id).label = new
             /\ Renamed(old, new)
             /\ lastResponse'.status = 200
             /\ lastResponse'.body.affectedBooks =
                  Cardinality({ i \in 1..Len(booksStore) :
                                  Carries(booksStore[i], old) })]_vars

\* ---------------------------------------------------------------- C29
\* the config after the step differs from the one before in the
\* description of the tag with the id at most, which is the trimmed one of
\* the body if the body has one
OnlyDescriptionSet(id, body) ==
  /\ Len(configStore'.tags) = Len(configStore.tags)
  /\ configStore'.ratings = configStore.ratings
  /\ \A i \in 1..Len(configStore.tags) :
       LET before == configStore.tags[i]
           after == configStore'.tags[i]
       IN IF before.id # id \/ "description" \notin DOMAIN body
          THEN after = before
          ELSE /\ DOMAIN after = DOMAIN before \cup {"description"}
               /\ after.description = Trim(body.description)
               /\ after.id = before.id /\ after.label = before.label

\* C29: PUT /api/tags/:id with the label the tag already has changes the
\* description of that tag in the config and nothing else: the books file
\* is not written, every book is as it was, and affectedBooks is 0.
C29_SameLabelNoCascade ==
  [][\A id \in StoredTagIds, body \in { b \in TagBodies : ~NoLabel(b) } :
       \/ TagWithId(configStore, id).label # Trim(body.label)
       \/ /\ booksStore' = booksStore
          /\ BOOKS \notin written'
          /\ lastResponse'.status = 200
          /\ lastResponse'.body.affectedBooks = 0
          /\ lastResponse'.body.tag = TagWithId(configStore', id)
          /\ OnlyDescriptionSet(id, body)
       \/ ~PutTag(id, body)]_vars

\* tag b, which had no description, was given one under its own label: the
\* config alone was written and the seeded books are untouched
C29_Witness ==
  /\ lastResponse.status = 200
  /\ "affectedBooks" \in DOMAIN lastResponse.body
  /\ lastResponse.body.affectedBooks = 0
  /\ lastResponse.body.tag =
       [id |-> <<"b">>, label |-> <<"B">>, description |-> <<"d">>]
  /\ written = {CONFIG}
  /\ booksStore = SeedBooks
  /\ configStore.tags[1] = SeedConfig.tags[1]
  /\ configStore.tags[2] = lastResponse.body.tag

\* ---------------------------------------------------------------- C30
\* the place of the stored tag with the id
TagPlace(id) ==
  CHOOSE i \in 1..Len(configStore.tags) : configStore.tags[i].id = id

\* the books, after the step, as the removal of the label leaves them:
\* nobody carries it, the other tags are there, in their order
Stripped(label) ==
  /\ Len(booksStore') = Len(booksStore)
  /\ \A i \in 1..Len(booksStore) :
       LET before == booksStore[i]
           after == booksStore'[i]
       IN /\ ~Carries(after, label)
          /\ after.tags = SelectSeq(before.tags, LAMBDA l : l # label)
          /\ [after EXCEPT !.tags = before.tags] = before

\* C30: DELETE /api/tags/:id on a stored tag removes the tag from the
\* config, where the other tags remain, and its label from every book,
\* whose other tags are untouched; affectedBooks is the number of books that
\* carried the label.
C30_DeleteStrips ==
  [][\A id \in StoredTagIds :
       LET at == TagPlace(id)
           removed == configStore.tags[at]
       IN \/ ~DeleteTag(id)
          \/ /\ Len(configStore'.tags) = Len(configStore.tags) - 1
             /\ \A j \in 1..(at - 1) :
                  configStore'.tags[j] = configStore.tags[j]
             /\ \A j \in at..Len(configStore'.tags) :
                  configStore'.tags[j] = configStore.tags[j + 1]
             /\ configStore'.ratings = configStore.ratings
             /\ Stripped(removed.label)
             /\ lastResponse'.status = 200
             /\ lastResponse'.body.removed = removed
             /\ lastResponse'.body.affectedBooks =
                  Cardinality({ i \in 1..Len(booksStore) :
                                  Carries(booksStore[i], removed.label) })]_vars

\* tag a was deleted from the seeded store: both books carried its label,
\* book 1 keeps its other tag, tag b is what the config holds
C30_Witness ==
  /\ lastResponse.status = 200
  /\ "removed" \in DOMAIN lastResponse.body
  /\ lastResponse.body.removed = SeedConfig.tags[1]
  /\ lastResponse.body.affectedBooks = 2
  /\ configStore.tags = <<SeedConfig.tags[2]>>
  /\ Len(booksStore) = 2
  /\ booksStore[1].tags = <<<<"B">>>> /\ booksStore[2].tags = << >>

\* ---------------------------------------------------------------- C31
\* C31: on /api/config, GET answers 200 with the stored config; POST stores
\* the body in place of the config and answers 200 with it; PUT and DELETE
\* are answered 405 and leave the stored config as it was.
C31_ConfigMethods ==
  [][\A method \in Methods, body \in ConfigBodies :
       \/ CASE method = "GET" ->
                 /\ lastResponse' = [status |-> 200, body |-> configStore]
                 /\ configStore' = configStore /\ written' = {}
            [] method = "POST" ->
                 /\ configStore' = body
                 /\ lastResponse' = [status |-> 200, body |-> body]
            [] OTHER ->
                 /\ lastResponse'.status = 405
                 /\ configStore' = configStore /\ written' = {}
       \/ ~handleConfig(method, body)]_vars

\* a request was answered 405 after a POST had replaced the seeded config by
\* one without tags and ratings
C31_Witness ==
  /\ lastResponse.status = 405
  /\ configStore = [tags |-> << >>, ratings |-> << >>]

\* ------------------------------------------------------------------- C32
\* what the page last did with fn is to subscribe it
Subscribed(fn) == lastEvent[fn] = "subscribed"

\* C32: a callback is only ever called while it is subscribed, never after
\* its unsubscribe function was called, never twice by one mutation, and
\* with the store already holding the mutation's result (the call leaves
\* books and config alone); when a mutation's notification is complete,
\* every subscribed callback was called exactly once and no other was
\* called.
C32_NotifiesSubscribersOnce ==
  [][/\ \A fn \in Callbacks :
          (invoked'[fn] > invoked[fn])
            => (/\ Subscribed(fn)
                /\ invoked[fn] = 0
                /\ uiBooks' = uiBooks
                /\ uiConfig' = uiConfig)
     /\ (queue' = << >> /\ lastEvent' = lastEvent)
           => (\A fn \in Callbacks :
                 invoked'[fn] = IF Subscribed(fn) THEN 1 ELSE 0)]_vars

\* a mutation of a store holding two books has notified callback 1, which
\* is subscribed, and not callback 2, which was subscribed and unsubscribed
C32_Witness ==
  /\ queue = << >>
  /\ Len(uiBooks) = 2
  /\ subscribers = <<1>>
  /\ invoked[1] = 1 /\ Subscribed(1)
  /\ invoked[2] = 0 /\ lastEvent[2] = "unsubscribed"

\* ------------------------------------------------------------------- C33
\* the ids of the stored books are pairwise distinct
DistinctBookIds ==
  \A i, j \in 1..Len(booksStore) :
    booksStore[i].id = booksStore[j].id => i = j

\* C33: overlapping store requests lose nothing: the books a handler
\* writes are the books stored at that moment with the handler's own change
\* made to them, so that what other requests wrote since the handler read
\* the file is still there, and the stored book ids are pairwise distinct.
C33_OverlapKeepsEveryChange ==
  /\ []DistinctBookIds
  /\ [][\A h \in Handlers :
          \/ handlers[h].at # "writeBooks"
          \/ booksStore' =
               ChangedBooks(handlers[h].req, booksStore, handlers[h].oldLabel)
          \/ ~write_books(h)]_vars

\* ------------------------------------------------------------------- C34
\* C34: for every exit code and output, gitSafe does not throw and returns
\* { ok, stdout, stderr } with ok true exactly when the exit code is 0 and
\* both texts trimmed; git returns the trimmed stdout exactly when the exit
\* code is 0 and otherwise throws a GitError that carries the arguments,
\* the exit code and the trimmed stdout and stderr.
C34_RunnerModes ==
  /\ proc.mode = ran.mode
  /\ proc.mode = "safe" =>
       /\ ~ran.thrown
       /\ DOMAIN ran.value = {"ok", "stdout", "stderr"}
       /\ ran.value.ok <=> proc.exitCode = 0
       /\ ran.value.stdout = Trim(proc.stdout)
       /\ ran.value.stderr = Trim(proc.stderr)
  /\ proc.mode = "strict" =>
       /\ ran.thrown <=> proc.exitCode # 0
       /\ ~ran.thrown => ran.value = Trim(proc.stdout)
       /\ ran.thrown =>
            /\ ran.value.name = "GitError"
            /\ ran.value.args = proc.args
            /\ ran.value.exitCode = proc.exitCode
            /\ ran.value.stdout = Trim(proc.stdout)
            /\ ran.value.stderr = Trim(proc.stderr)

\* gitSafe has returned ok false for a process that exited 128 with
\* untrimmed output on both streams
C34_Witness ==
  /\ proc.mode = "safe"
  /\ proc.exitCode = 128
  /\ proc.stdout = <<" ", "out", "\n">>
  /\ proc.stderr = <<"err", "\n">>
  /\ ran.value = [ok |-> FALSE, stdout |-> <<"out">>, stderr |-> <<"err">>]

\* ------------------------------------------------------------------- C35
\* the commits the remote branch holds
OnRemote == Ancestors(remote)

\* C35: the sha of a successful publish() names a commit its push step put
\* or found on the remote branch: when the call returns, the commit the sha
\* names is on the remote branch.
C35_ShaIsPushed ==
  [][\A t \in Tasks :
       \/ ~("success" \in DOMAIN result'[t] /\ result'[t].success)
       \/ result'[t].sha \in { <<ShortSha(c)>> : c \in OnRemote }
       \/ ~push_revparse(t)]_vars

\* ------------------------------------------------------------------- C36
\* the file differs from the last commit: edited, staged, deleted or new
HasLocalChange(k, f) == ~NoLocalChange(fstate[k][f])

\* the commits of graph g reachable from c
RECURSIVE AncestorsIn(_, _)
AncestorsIn(g, c) == {c} \cup UNION { AncestorsIn(g, p) : p \in g[c].parents }

\* the files changed by the commits a branch gains when it moves from a to b
BroughtIn(g, a, b) ==
  UNION { g[c].files : c \in AncestorsIn(g, b) \ AncestorsIn(g, a) }

LastSync(o, b) ==
  /\ op[1] = o /\ pc[1] = "idle"
  /\ "success" \in DOMAIN result[1] /\ result[1].success = b

\* C37: a status() that runs right after a pull() that returned success
\* reports behind = 0.
C37_PullThenNotBehind ==
  [][\/ ~LastSync("pull", TRUE)
     \/ "behind" \in DOMAIN result'[2] /\ result'[2].behind = 0
     \/ ~status_revlist(2)]_vars

\* a pull has fast-forwarded the branch to a commit of another client and
\* the status that followed reported behind 0
C37_Witness ==
  /\ LastSync("pull", TRUE)
  /\ head[1] > 1 /\ head[1] = tracking[1]
  /\ op[2] = "status" /\ pc[2] = "idle"
  /\ "behind" \in DOMAIN result[2] /\ result[2].behind = 0
  /\ cmdResult[2].ok

\* ------------------------------------------------------------------- C38
\* the last sync call was a publish that made a commit and whose push failed
PushFailedAfterCommit ==
  /\ LastSync("push", FALSE)
  /\ log[1] = <<"add", "commit", "push">>
  /\ made[1] # 0

\* the status call returns with ahead = n
ReportsAhead(n) == "ahead" \in DOMAIN result'[2] /\ result'[2].ahead = n

\* the status call returns with ahead >= 1
ReportsUnpushed == "ahead" \in DOMAIN result'[2] /\ result'[2].ahead >= 1

\* C38 as stated: a status() that runs right after a publish() reports
\* ahead = 0 when the publish returned success, and ahead >= 1 when the
\* publish made a commit and its push failed.
C38_PublishThenAhead ==
  [][\/ /\ LastSync("push", TRUE) => ReportsAhead(0)
        /\ PushFailedAfterCommit => ReportsUnpushed
     \/ ~status_revlist(2)]_vars

\* C38 amended: ahead = 0 after a publish that returned success; after a
\* publish that made a commit and whose push failed, ahead >= 1 provided
\* the rev-list of status() succeeded (ahead stays 0 when it fails, as it
\* does on a branch without upstream).
C38_PublishThenAheadIfCounted ==
  [][\/ /\ LastSync("push", TRUE) => ReportsAhead(0)
        /\ (PushFailedAfterCommit /\ cmdResult'[2].ok) => ReportsUnpushed
     \/ ~status_revlist(2)]_vars

\* a publish has committed an edit and failed to push it, and the status
\* that followed counted one commit ahead
C38_Witness ==
  /\ PushFailedAfterCommit
  /\ op[2] = "status" /\ pc[2] = "idle"
  /\ cmdResult[2].ok
  /\ "ahead" \in DOMAIN result[2] /\ result[2].ahead = 1
  /\ head[1] = made[1]

\* ------------------------------------------------------------------- C40
\* C40: the startup status is written once, when the server comes up, from
\* the result of the startup pull; no request changes it afterwards,
\* whatever the outcome of the pulls and pushes the page asks for; and
\* every answer of GET /api/status is 200 with that record, which has
\* checked true.
C40_StartupStatusWriteOnce ==
  [][/\ Serving => startupStatus' = startupStatus
     /\ (~Serving /\ phase' = "serving")
          => startupStatus' = Spread([checked |-> TRUE], result[1])
     /\ \/ /\ lastResponse' = Json(200, startupStatus)
           /\ startupStatus.checked
        \/ ~GetStatus]_vars

\* the startup pull succeeded, a later publish requested by the page
\* failed, and GET /api/status still answers with the startup success
C40_Witness ==
  /\ Serving
  /\ op[1] = "push" /\ pc[1] = "idle"
  /\ "success" \in DOMAIN result[1] /\ ~result[1].success
  /\ startupStatus = [checked |-> TRUE, success |-> TRUE]
  /\ lastResponse = Json(200, startupStatus)

\* ------------------------------------------------------------------- C39
\* what a step of the widget may do with the push
OnePushAtATime ==
  \* a click during a push sends nothing; any other click sends one request
  /\ clicks' # clicks =>
       IF pushing
       THEN posted' = posted /\ inflight' = inflight /\ pushing'
       ELSE posted' = posted + 1 /\ inflight' = 1 /\ pushing'
  \* requests are sent by clicks only
  /\ posted' # posted => clicks' # clicks
  \* when _handlePush() ends, the flag is cleared and the button enabled
  /\ (pcPush # "idle" /\ pcPush' = "idle") =>
       ~pushing' /\ ~button'.disabled /\ ~button'.loading

====
